---------------------------- MODULE Spec2Model ----------------------------
(***************************************************************************)
(* A model of hrtester (github.com/ozla/hrtester): the Tester, the Mock    *)
(* and the Collector services.  Each service is a set of HTTP handlers     *)
(* that net/http runs concurrently, one goroutine per request, plus the    *)
(* goroutines the handlers start.  A handler is split into steps at its    *)
(* accesses to the state it shares with the other goroutines.              *)
(*                                                                         *)
(*   SpecTester     internal/tester/service.go                             *)
(*   SpecMock       internal/mock/service.go                               *)
(*   SpecCollector  internal/collector/service.go                          *)
(*   SpecCollectorLive, SpecShutdown   the services with their shutdown    *)
(*   SpecControl    the /__service/ endpoints of the three services        *)
(*   SpecWorker     a worker of runTesters and the record of a request     *)
(*   SpecWire       the TestResult conversions (unnamed/part_000)          *)
(*   SpecParams     the JSON forms of params (unnamed/part_002)            *)
(*   SpecPace       pace.UnmarshalJSON (unnamed/part_002)                  *)
(*   SpecDuration   Duration.UnmarshalJSON (internal/shared)               *)
(*   SpecHeader     the headers of request.UnmarshalJSON (unnamed/part_002)*)
(*   SpecCapacity   the capacity of the results channel (startSender)      *)
(*   SpecWorkers    one run: runTesters, its workers, sender and supervisor*)
(*   SpecTwoRuns, SpecTwoRunsLive   the runs of two POST /test             *)
(*   SpecPacing     the pacing sleep of a worker (runTesters)              *)
(*   SpecSpinup     the spin-up computation of runTesters                  *)
(*   SpecSelection  one run for each choice and list of templates          *)
(*   SpecTerminate  one run and a terminate during the test                *)
(***************************************************************************)
EXTENDS Integers, Sequences, FiniteSets, TLC

(***************************************************************************)
(* Bounds of the model.                                                    *)
(***************************************************************************)
\* POST /test requests of one behaviour of SpecTester
NumTestReq == 2

\* POST /test requests of one behaviour of SpecTesterRun
NumRunReq == 1

\* POST /__mock requests of one behaviour of SpecMock
NumMockReq == 2

\* seconds on the clock of SpecMock
MaxTime == 2

\* POST / requests of one behaviour of SpecCollector
MaxPosts == 11

\* the latest instant at which a target answers, in SpecWorker
MaxDelay == 3

\* form encoded POST / requests of one behaviour of SpecCollectorLive
MaxLivePosts == 3

\* POST / requests of SpecCollector that are in their handler at one time
MaxInflight == 1

\* the longest duration and timeout of SpecParams, in half milliseconds
MaxHalfMillis == 3

\* the largest number of a duration text of SpecDuration
MaxDurationNumber == 20

\* the workers of a run of SpecWorkers
NumWorkers == 2

\* the requests of one run of SpecWorkers
MaxRequests == 4

\* the most workers of a configuration of SpecPacing
MaxPacedTesters == 3

\* the longest request of SpecPacing, in half milliseconds
MaxElapsedHalfMillis == 6

\* the longest of the short durations of SpecSpinup, in microseconds
MaxSpinupMicros == 3

\* the requests of one run of SpecTwoRuns
MaxRunRequests == 2

(***************************************************************************)
(* Program constants.                                                      *)
(***************************************************************************)
statusReady == 0
statusTesting == 1
statusStopping == 2

\* mock/service.go
statusRunning == 1

\* collector/service.go
BufferSize == 10

\* tester/service.go, line 36
resultsBufferSize == 20

StatusOK == 200
StatusBadRequest == 400
StatusServiceUnavailable == 503
StatusMovedPermanently == 301
StatusNotFound == 404
StatusMethodNotAllowed == 405

VARIABLES
    \* ---- Tester: fields of tester.service
    status,         \* s.status (atomic.Uint32)
    params,         \* s.params, the fields the handler reads back
    testCtx,        \* s.testCtx: the run whose context it is, 0 for nil
    testCancel,     \* s.testCancel: the run whose context it cancels, 0 for nil
    startedAt,      \* s.startedAt: the reading of time.Now(), 0 for the zero time
    runningUntil,   \* s.runningUntil
    idGenDone,      \* s.idGenDone: the run that made the channel, 0 for nil
    testersDone,    \* s.testersDone
    ids,            \* s.ids
    results,        \* s.results
    resultsCap,     \* the capacity the results channel of each run was made with
    shutdownOnce,   \* s.shutdownOnce has run
    terminated,     \* s.terminated is closed
    shutCount,      \* how often the function of shutdownOnce ran, and close(s.terminated)
    \* ---- Tester: the objects made by the handler of request g
    ctxDone,        \* the context made at line 209 is done
    testersDoneClosed, \* the channel made at line 358 is closed
    resultsClosed,  \* the channel made at line 309 is closed
    \* ---- Tester: goroutines started by the handler of request g
    senderPc,       \* the goroutine of startSender
    idGenPc,        \* the goroutine of startIDGen
    testersPc,      \* runTesters
    supPc,          \* the goroutine of lines 214..223
    supCtx,         \* the context that goroutine waits for
    supTD,          \* the testersDone channel that goroutine waits for
    \* ---- Tester: the HTTP server and the requests in flight
    serving,        \* the listener accepts connections
    shutPc,         \* the goroutine of shutdown()
    clock,          \* readings of time.Now() taken so far
    crashed,        \* a goroutine panicked outside a handler: the process is gone
    pc,             \* where the handler of each POST /test is
    body,           \* the body it was sent
    resp,           \* the status code written to its ResponseWriter, 0 when none
    cas,            \* the outcome of its CompareAndSwap
    arr,            \* the status and the admissions so far when it arrived
    \* ---- Tester: runTesters of request g, its workers and its sender
    testersN,       \* the ParallelTesters runTesters read, -1 before
    total,          \* totalRequests
    wPc,            \* where each worker it has launched is
    localN,         \* localN of each worker
    wRec,           \* the record of the iteration of each worker
    chanQ,          \* the records in the results channel made by request g
    recvd,          \* the records the sender of request g has received
    \* ---- Mock: fields of mock.service
    mockStatus,     \* s.status (atomic.Uint32)
    mockParams,     \* s.params
    mockStartedAt,  \* s.startedAt
    mockRunningUntil, \* s.runningUntil
    \* ---- Mock: the clock, the requests in flight and the goroutines
    now,            \* the time, in seconds
    mpc,            \* where the handler of each POST /__mock is
    mbody,          \* the body it was sent
    mresp,          \* the status code written to its ResponseWriter, 0 when none
    mcas,           \* the outcome of its CompareAndSwap
    dlPc,           \* the goroutine of lines 356..363 started by the request
    dlWake,         \* when its time.Sleep returns
    dlReset,        \* when it stored statusReady, -1 before
    admitAt,        \* when the request was admitted, -1 before
    traffic,        \* the last request served by handleDefault
    mockShutdownOnce, \* s.shutdownOnce has run
    mockTerminated, \* s.terminated is closed
    mockShutCount,  \* how often the function of shutdownOnce ran, and close(s.terminated)
    mockServing,    \* the listener accepts connections
    mockShutPc,     \* the goroutine of shutdown()
    \* ---- Collector: fields of collector.service
    colResults,     \* s.results: the records buffered in the channel
    colClosed,      \* s.results is closed
    colCtxDone,     \* cancelWrite was called
    colShutdownOnce, \* s.shutdownOnce has run
    colTerminated,  \* s.terminated is closed
    colShutCount,   \* how often the function of shutdownOnce ran, and close(s.terminated)
    colRows,        \* the rows written to the csv.Writer of s.csv, in order
    colUnflushed,   \* the csv.Writer buffers rows not yet flushed to the file
    colFileClosed,  \* s.csv is closed
    \* ---- Collector: the HTTP server, the requests in flight, the goroutines
    colServing,     \* the listener accepts connections
    colShutPc,      \* the goroutine of shutdown()
    colWriterPc,    \* processResults
    colPosts,       \* form encoded POST / received so far; the n-th carries record n
    colRefused,     \* some POST / was answered 415 or 400
    colSel,         \* records whose handler is at the select of line 134
    colAccepted,    \* records sent on the channel
    colEnq,         \* the records sent on the channel, in the order of the sends
    colAtClose,     \* how many records the channel held when it was closed, -1 before
    colDropped,     \* records dropped at the default case
    colPanicked,    \* handlers that panicked (net/http recovers them)
    \* ---- the control plane of the three services
    ctl,            \* the last exchange that left the state of its service alone
    \* ---- a worker of runTesters
    lastReq,        \* the last request of a worker: what the target did, and its record
    \* ---- the conversions of the shared package
    wire,           \* the last conversion: its input and what came out
    \* ---- the JSON forms of the Tester's configuration
    codec           \* the last JSON conversion: its input and what came out

testerVars == <<status, params, testCtx, testCancel, startedAt, runningUntil,
                idGenDone, testersDone, ids, results, resultsCap,
                shutdownOnce, terminated,
                shutCount,
                ctxDone, testersDoneClosed, resultsClosed,
                senderPc, idGenPc, testersPc, supPc, supCtx, supTD,
                serving, shutPc, clock, crashed,
                pc, body, resp, cas, arr>>

runVars == <<testersN, total, wPc, localN, wRec, chanQ, recvd>>

mockVars == <<mockStatus, mockParams, mockStartedAt, mockRunningUntil, now,
              mpc, mbody, mresp, mcas, dlPc, dlWake, dlReset, admitAt, traffic,
              mockShutdownOnce, mockTerminated, mockShutCount, mockServing,
              mockShutPc>>

collectorVars == <<colResults, colClosed, colCtxDone, colShutdownOnce,
                   colShutCount,
                   colTerminated, colRows, colUnflushed, colFileClosed,
                   colServing, colShutPc, colWriterPc, colPosts, colRefused,
                   colSel, colAccepted, colEnq, colDropped, colPanicked,
                   colAtClose>>

vars == <<testerVars, runVars, mockVars, collectorVars, ctl, lastReq, wire,
         codec>>

\* what the actions of one service leave alone
notTester == <<runVars, mockVars, collectorVars, ctl, lastReq, wire, codec>>
notMock == <<testerVars, runVars, collectorVars, ctl, lastReq, wire, codec>>
notCollector == <<testerVars, runVars, mockVars, ctl, lastReq, wire, codec>>

(***************************************************************************)
(* net/http: the first status code written to a ResponseWriter is the one  *)
(* sent; a later WriteHeader is superfluous and ignored.                   *)
(***************************************************************************)
WriteHeader(cur, code) == IF cur = 0 THEN code ELSE cur

(***************************************************************************)
(*                               TESTER                                    *)
(***************************************************************************)
TestReqs == 1..NumTestReq

\* The bodies a POST /test is sent.  kind "syntax" is a body json.Unmarshal
\* rejects before it stores anything (invalid JSON, or a field of the wrong
\* form); kind "badreq" is a body whose top-level fields decode and one of
\* whose requests does not; Duration and Timeout are in seconds.
\* TestBodies are the bodies of SpecTester, RunBodies those of SpecTesterRun.
TestBodies ==
    { [kind |-> "syntax", Duration |-> 0,  Timeout |-> 0],
      [kind |-> "ok",     Duration |-> 1,  Timeout |-> 1],
      [kind |-> "ok",     Duration |-> -1, Timeout |-> 1] }

RunBodies ==
    TestBodies \cup
    { [kind |-> "badreq", Duration |-> 3,  Timeout |-> 1],
      [kind |-> "ok",     Duration |-> 2,  Timeout |-> 1],
      [kind |-> "ok",     Duration |-> 1,  Timeout |-> -1],
      [kind |-> "ok",     Duration |-> -1, Timeout |-> -1] }

\* the fields of s.params the model follows: the two durations, and the
\* fields the run reads (Requests holds the paths of the templates)
zeroParams == [Duration |-> 0, Timeout |-> 0, ParallelTesters |-> 0,
               Choice |-> "", Requests |-> <<>>]

\* params.UnmarshalJSON: *p is assigned once the top-level object decoded,
\* before the requests are decoded one by one.
UnmarshalStores(b) == b.kind \in {"ok", "badreq"}
UnmarshalFails(b) == b.kind \in {"syntax", "badreq"}
\* part_002, line 42: every field is assigned, those the body does not name
\* with their zero value
UnmarshalParams(b) ==
    [f \in DOMAIN zeroParams |-> IF f \in DOMAIN b THEN b[f] ELSE zeroParams[f]]

\* startSender, lines 309..312: ParallelTesters is a uint8 and
\* resultsBufferSize an untyped constant, so the product is a uint8
ResultsCapacity(n) == (n * resultsBufferSize) % (2^8)

\* handleTest, line 175
InvalidDuration(p) == p.Duration < 0

\* A plain store in place of the compare-and-swap: it never fails.
CompareAndSwapBlind(s) == TRUE

\* atomic.Uint32.CompareAndSwap(statusReady, statusTesting), line 200
CompareAndSwapReady(s) == s = statusReady

noShutdown == [runs |-> 0, closes |-> 0]

\* sync.Once.Do, in shutdown of the three services: the function runs at the
\* first call only.
OnceDo(done) == ~done

Alive == ~terminated /\ ~crashed

TesterInit ==
    /\ status = statusReady
    /\ params = zeroParams
    /\ testCtx = 0 /\ testCancel = 0
    /\ startedAt = 0 /\ runningUntil = 0
    /\ idGenDone = 0 /\ testersDone = 0 /\ ids = 0 /\ results = 0
    /\ resultsCap = [g \in TestReqs |-> 0]
    /\ shutdownOnce = FALSE /\ terminated = FALSE
    /\ shutCount = noShutdown
    /\ ctxDone = [g \in TestReqs |-> FALSE]
    /\ testersDoneClosed = [g \in TestReqs |-> FALSE]
    /\ resultsClosed = [g \in TestReqs |-> FALSE]
    /\ senderPc = [g \in TestReqs |-> "none"]
    /\ idGenPc = [g \in TestReqs |-> "none"]
    /\ testersPc = [g \in TestReqs |-> "none"]
    /\ supPc = [g \in TestReqs |-> "none"]
    /\ supCtx = [g \in TestReqs |-> 0]
    /\ supTD = [g \in TestReqs |-> 0]
    /\ serving = TRUE
    /\ shutPc = "none"
    /\ clock = 0
    /\ crashed = FALSE
    /\ pc = [r \in TestReqs |-> "idle"]
    /\ body = [r \in TestReqs |-> [kind |-> "syntax", Duration |-> 0, Timeout |-> 0]]
    /\ resp = [r \in TestReqs |-> 0]
    /\ cas = [r \in TestReqs |-> "none"]
    /\ arr = [r \in TestReqs |-> [st |-> statusReady, adm |-> 0]]

Admissions == Cardinality({r \in TestReqs : cas[r] = "won"})

servicesU == <<shutdownOnce, terminated, shutCount, serving, shutPc, crashed>>
fieldsU == <<testCtx, testCancel, startedAt, runningUntil, idGenDone,
             testersDone, ids, results, resultsCap, clock>>
chansU == <<ctxDone, testersDoneClosed, resultsClosed>>
tasksU == <<senderPc, idGenPc, testersPc, supPc, supCtx, supTD>>

\* handleTest, lines 157..174: the request arrives, its body is read and
\* decoded into the shared s.params.  Request r is the r-th to arrive.
HandleTestDecode(r, b) ==
    /\ Alive /\ serving
    /\ pc[r] = "idle"
    /\ \A q \in TestReqs : q < r => pc[q] # "idle"
    /\ body' = [body EXCEPT ![r] = b]
    /\ arr' = [arr EXCEPT ![r] = [st |-> status, adm |-> Admissions]]
    /\ params' = IF UnmarshalStores(b) THEN UnmarshalParams(b) ELSE params
    /\ IF UnmarshalFails(b)
         THEN /\ resp' = [resp EXCEPT ![r] = WriteHeader(resp[r], StatusBadRequest)]
              /\ pc' = [pc EXCEPT ![r] = "done"]
         ELSE /\ resp' = resp
              /\ pc' = [pc EXCEPT ![r] = "validate"]
    /\ UNCHANGED <<status, cas, servicesU, fieldsU, chansU, tasksU>>
    /\ UNCHANGED notTester

\* handleTest, lines 175..198: the check of s.params.Duration and the defaults
HandleTestValidate(r) ==
    /\ Alive
    /\ pc[r] = "validate"
    /\ IF InvalidDuration(params)
         THEN /\ resp' = [resp EXCEPT ![r] = WriteHeader(resp[r], StatusBadRequest)]
              /\ pc' = [pc EXCEPT ![r] = "done"]
         ELSE /\ resp' = resp
              /\ pc' = [pc EXCEPT ![r] = "cas"]
    /\ UNCHANGED <<status, params, body, cas, arr, servicesU, fieldsU, chansU, tasksU>>
    /\ UNCHANGED notTester

\* handleTest, lines 200..206: the compare-and-swap; the 503 branch does not
\* return.
HandleTestCAS(r) ==
    /\ Alive
    /\ pc[r] = "cas"
    /\ IF CompareAndSwapReady(status)
         THEN /\ status' = statusTesting
              /\ cas' = [cas EXCEPT ![r] = "won"]
              /\ resp' = resp
         ELSE /\ status' = status
              /\ cas' = [cas EXCEPT ![r] = "lost"]
              /\ resp' = [resp EXCEPT ![r] =
                            WriteHeader(resp[r], StatusServiceUnavailable)]
    /\ pc' = [pc EXCEPT ![r] = "start"]
    /\ UNCHANGED <<params, body, arr, servicesU, fieldsU, chansU, tasksU>>
    /\ UNCHANGED notTester

\* handleTest, lines 207..228, with startSender, startIDGen and startTesters
HandleTestStart(r) ==
    /\ Alive
    /\ pc[r] = "start"
    /\ clock' = clock + 1
    /\ startedAt' = clock'
    /\ runningUntil' = startedAt' + params.Duration
    /\ testCtx' = r /\ testCancel' = r
    /\ results' = r /\ senderPc' = [senderPc EXCEPT ![r] = "run"]
    /\ resultsCap' = [resultsCap EXCEPT ![r] =
                          ResultsCapacity(params.ParallelTesters)]
    /\ ids' = r /\ idGenDone' = r /\ idGenPc' = [idGenPc EXCEPT ![r] = "run"]
    /\ testersDone' = r /\ testersPc' = [testersPc EXCEPT ![r] = "run"]
    /\ supPc' = [supPc EXCEPT ![r] = "start"]
    /\ resp' = [resp EXCEPT ![r] = WriteHeader(resp[r], StatusOK)]
    /\ pc' = [pc EXCEPT ![r] = "done"]
    /\ UNCHANGED <<status, params, body, cas, arr, servicesU, chansU, supCtx, supTD>>
    /\ UNCHANGED notTester

\* context.WithDeadline, line 209: the deadline of the context of run g passes
DeadlineExpires(g) ==
    /\ Alive
    /\ supPc[g] # "none"
    /\ ~ctxDone[g]
    /\ ctxDone' = [ctxDone EXCEPT ![g] = TRUE]
    /\ UNCHANGED <<status, params, servicesU, fieldsU, testersDoneClosed,
                   resultsClosed, tasksU, pc, body, resp, cas, arr>>
    /\ UNCHANGED notTester

\* runTesters, lines 461..464 and 551..552: every worker has seen s.testCtx
\* done and returned, wg.Wait returns and s.testersDone is closed.
TestersExit(g) ==
    /\ Alive
    /\ testersPc[g] = "run"
    /\ testCtx # 0 /\ ctxDone[testCtx]
    /\ testersPc' = [testersPc EXCEPT ![g] = "exit"]
    /\ IF testersDoneClosed[testersDone]
         THEN /\ crashed' = TRUE
              /\ UNCHANGED testersDoneClosed
         ELSE /\ testersDoneClosed' = [testersDoneClosed EXCEPT ![testersDone] = TRUE]
              /\ UNCHANGED crashed
    /\ UNCHANGED <<status, params, shutdownOnce, terminated, shutCount, serving, shutPc,
                   fieldsU, ctxDone, resultsClosed,
                   senderPc, idGenPc, supPc, supCtx, supTD, pc, body, resp, cas, arr>>
    /\ UNCHANGED notTester

\* startSender, lines 313..337: the range over the results channel ends when
\* the channel is closed.
SenderExit(g) ==
    /\ Alive
    /\ senderPc[g] = "run"
    /\ resultsClosed[g]
    /\ senderPc' = [senderPc EXCEPT ![g] = "exit"]
    /\ UNCHANGED <<status, params, servicesU, fieldsU, chansU,
                   idGenPc, testersPc, supPc, supCtx, supTD, pc, body, resp, cas, arr>>
    /\ UNCHANGED notTester

\* line 215: the goroutine is scheduled and reads s.testCtx
SupStart(g) ==
    /\ Alive
    /\ supPc[g] = "start"
    /\ supCtx' = [supCtx EXCEPT ![g] = testCtx]
    /\ supPc' = [supPc EXCEPT ![g] = "waitCtx"]
    /\ UNCHANGED <<status, params, servicesU, fieldsU, chansU,
                   senderPc, idGenPc, testersPc, supTD, pc, body, resp, cas, arr>>
    /\ UNCHANGED notTester

\* lines 215..216: the context is done; s.testersDone is read
SupCtxDone(g) ==
    /\ Alive
    /\ supPc[g] = "waitCtx"
    /\ ctxDone[supCtx[g]]
    /\ supTD' = [supTD EXCEPT ![g] = testersDone]
    /\ supPc' = [supPc EXCEPT ![g] = "waitTesters"]
    /\ UNCHANGED <<status, params, servicesU, fieldsU, chansU,
                   senderPc, idGenPc, testersPc, supCtx, pc, body, resp, cas, arr>>
    /\ UNCHANGED notTester

\* lines 216..217: testersDone is closed; close(s.results)
SupClose(g) ==
    /\ Alive
    /\ supPc[g] = "waitTesters"
    /\ testersDoneClosed[supTD[g]]
    /\ IF resultsClosed[results]
         THEN /\ crashed' = TRUE
              /\ UNCHANGED <<resultsClosed, supPc>>
         ELSE /\ resultsClosed' = [resultsClosed EXCEPT ![results] = TRUE]
              /\ supPc' = [supPc EXCEPT ![g] = "store"]
              /\ UNCHANGED crashed
    /\ UNCHANGED <<status, params, shutdownOnce, terminated, shutCount, serving, shutPc,
                   fieldsU, ctxDone, testersDoneClosed,
                   senderPc, idGenPc, testersPc, supCtx, supTD, pc, body, resp, cas, arr>>
    /\ UNCHANGED notTester

\* line 218: s.status.Store(statusReady)
SupStore(g) ==
    /\ Alive
    /\ supPc[g] = "store"
    /\ status' = statusReady
    /\ supPc' = [supPc EXCEPT ![g] = "exit"]
    /\ UNCHANGED <<params, servicesU, fieldsU, chansU,
                   senderPc, idGenPc, testersPc, supCtx, supTD, pc, body, resp, cas, arr>>
    /\ UNCHANGED notTester

\* handleService, lines 282..286, and shutdown, lines 133..137
HandleTerminate ==
    /\ Alive /\ serving
    /\ IF OnceDo(shutdownOnce)
         THEN /\ shutdownOnce' = TRUE /\ shutPc' = "cancel"
              /\ shutCount' = [shutCount EXCEPT !.runs = @ + 1]
         ELSE UNCHANGED <<shutdownOnce, shutPc, shutCount>>
    /\ UNCHANGED <<status, params, terminated, serving, crashed, fieldsU, chansU,
                   tasksU, pc, body, resp, cas, arr>>
    /\ UNCHANGED notTester

\* shutdown, lines 139..141
ShutdownCancel ==
    /\ Alive
    /\ shutPc = "cancel"
    /\ ctxDone' = IF testCancel # 0 THEN [ctxDone EXCEPT ![testCancel] = TRUE]
                                    ELSE ctxDone
    /\ shutPc' = "shutdown"
    /\ UNCHANGED <<status, params, shutdownOnce, terminated, shutCount, serving,
                   crashed, fieldsU, testersDoneClosed, resultsClosed,
                   tasksU, pc, body, resp, cas, arr>>
    /\ UNCHANGED notTester

\* shutdown, line 144: http.Server.Shutdown closes the listeners first
ShutdownListeners ==
    /\ Alive
    /\ shutPc = "shutdown"
    /\ serving' = FALSE
    /\ shutPc' = "wait"
    /\ UNCHANGED <<status, params, shutdownOnce, terminated, shutCount,
                   crashed, fieldsU, chansU, tasksU, pc, body, resp, cas, arr>>
    /\ UNCHANGED notTester

\* shutdown, lines 138 and 142..146: Shutdown returns, when the handlers have
\* returned or when the 30 s of grace are over, and terminated is closed.
ShutdownReturns ==
    /\ Alive
    /\ shutPc = "wait"
    /\ shutPc' = "exit"
    /\ terminated' = TRUE
    /\ shutCount' = [shutCount EXCEPT !.closes = @ + 1]
    /\ UNCHANGED <<status, params, shutdownOnce, serving,
                   crashed, fieldsU, chansU, tasksU, pc, body, resp, cas, arr>>
    /\ UNCHANGED notTester

TesterNext ==
    \/ \E r \in TestReqs, b \in TestBodies : HandleTestDecode(r, b)
    \/ \E r \in TestReqs : HandleTestValidate(r)
    \/ \E r \in TestReqs : HandleTestCAS(r)
    \/ \E r \in TestReqs : HandleTestStart(r)
    \/ \E g \in TestReqs : DeadlineExpires(g)
    \/ \E g \in TestReqs : TestersExit(g)
    \/ \E g \in TestReqs : SenderExit(g)
    \/ \E g \in TestReqs : SupStart(g)
    \/ \E g \in TestReqs : SupCtxDone(g)
    \/ \E g \in TestReqs : SupClose(g)
    \/ \E g \in TestReqs : SupStore(g)

\* The bodies of SpecCapacity: every parallelTesters of the uint8.
CapacityBodies ==
    { [kind |-> "ok", Duration |-> 1, Timeout |-> 1, ParallelTesters |-> n]
      : n \in 0..(2^8 - 1) }

\* One POST /test up to the start of its run.
CapacityNext ==
    \/ \E b \in CapacityBodies : HandleTestDecode(1, b)
    \/ HandleTestValidate(1)
    \/ HandleTestCAS(1)
    \/ HandleTestStart(1)

\* One run of the Tester from POST /test to the end of the process.
TesterRunNext ==
    \/ \E r \in 1..NumRunReq, b \in RunBodies : HandleTestDecode(r, b)
    \/ \E r \in TestReqs : HandleTestValidate(r)
    \/ \E r \in TestReqs : HandleTestCAS(r)
    \/ \E r \in TestReqs : HandleTestStart(r)
    \/ \E g \in TestReqs : DeadlineExpires(g)
    \/ \E g \in TestReqs : TestersExit(g)
    \/ \E g \in TestReqs : SenderExit(g)
    \/ \E g \in TestReqs : SupStart(g)
    \/ \E g \in TestReqs : SupCtxDone(g)
    \/ \E g \in TestReqs : SupClose(g)
    \/ \E g \in TestReqs : SupStore(g)
    \/ HandleTerminate
    \/ ShutdownCancel
    \/ ShutdownListeners
    \/ ShutdownReturns

(***************************************************************************)
(*                                 MOCK                                    *)
(***************************************************************************)
MockReqs == 1..NumMockReq

\* The bodies a POST /__mock is sent, in seconds.  kind "syntax" is a body
\* json.Unmarshal rejects before it stores anything.
MockBodies ==
    { [kind |-> "syntax", Duration |-> 0, HMin |-> 0, HMax |-> 0, RMin |-> 0, RMax |-> 0],
      [kind |-> "ok", Duration |-> 2,  HMin |-> 0,  HMax |-> 2, RMin |-> 1, RMax |-> 3],
      [kind |-> "ok", Duration |-> 1,  HMin |-> 1,  HMax |-> 1, RMin |-> 0, RMax |-> 0],
      [kind |-> "ok", Duration |-> -1, HMin |-> 0,  HMax |-> 0, RMin |-> 0, RMax |-> 0],
      [kind |-> "ok", Duration |-> 1,  HMin |-> -1, HMax |-> 0, RMin |-> 0, RMax |-> 0],
      [kind |-> "ok", Duration |-> 1,  HMin |-> 0,  HMax |-> 0, RMin |-> 1, RMax |-> 0] }

zeroMockParams ==
    [Duration |-> 0, HMin |-> 0, HMax |-> 0, RMin |-> 0, RMax |-> 0]

UnmarshalMockParams(b) ==
    [Duration |-> b.Duration, HMin |-> b.HMin, HMax |-> b.HMax,
     RMin |-> b.RMin, RMax |-> b.RMax]

\* handleMock, lines 319..344
InvalidMockParams(p) ==
    \/ p.Duration < 0
    \/ p.HMin < 0 \/ p.HMin > p.HMax
    \/ p.RMin < 0 \/ p.RMin > p.RMax

\* atomic.Uint32.CompareAndSwap(statusReady, statusRunning), line 346
MockCompareAndSwap(s) == s = statusReady

\* The gate left open: no status is refused.
NotRunningNever(s) == FALSE

\* handleDefault, line 164
NotRunning(s) == s # statusRunning

\* A draw that includes its upper bound n.
Int64NInclusive(n) == 0..n

\* math/rand/v2 Int64N(n), for n > 0: a value of the half-open interval [0, n)
Int64N(n) == 0..(n - 1)

\* handleDefault, lines 171..175 and 177..181: the delays that can be drawn
DrawSet(min, max) ==
    IF max - min > 0 THEN {min + x : x \in Int64N(max - min)} ELSE {min}

\* The header delay not deducted from the response delay.
BodyDelayWhole(headDelay, respDelay) == respDelay

\* handleDefault, line 199
BodyDelay(headDelay, respDelay) == respDelay - headDelay

\* handleDefault, lines 183..214: what the handler does to the connection,
\* in order, once the two delays are drawn
ServeEvents(headDelay, respDelay) ==
    (IF headDelay > 0 THEN <<[op |-> "sleep", d |-> headDelay]>> ELSE <<>>)
    \o <<[op |-> "header", d |-> StatusOK]>>
    \o (IF BodyDelay(headDelay, respDelay) <= 0
          THEN <<>>
          ELSE <<[op |-> "sleep", d |-> BodyDelay(headDelay, respDelay)],
                 [op |-> "write", d |-> 1]>>)

noTraffic ==
    [seen |-> statusReady, code |-> 0, p |-> zeroMockParams,
     headDelay |-> 0, respDelay |-> 0, events |-> <<>>]

mockShutU == <<mockShutdownOnce, mockTerminated, mockShutCount, mockServing,
               mockShutPc>>

MockAlive == ~mockTerminated

MockInit ==
    /\ mockStatus = statusReady
    /\ mockParams = zeroMockParams
    /\ mockStartedAt = 0 /\ mockRunningUntil = 0
    /\ now = 0
    /\ mpc = [r \in MockReqs |-> "idle"]
    /\ mbody = [r \in MockReqs |-> zeroMockParams @@ [kind |-> "syntax"]]
    /\ mresp = [r \in MockReqs |-> 0]
    /\ mcas = [r \in MockReqs |-> "none"]
    /\ dlPc = [r \in MockReqs |-> "none"]
    /\ dlWake = [r \in MockReqs |-> 0]
    /\ dlReset = [r \in MockReqs |-> -1]
    /\ admitAt = [r \in MockReqs |-> -1]
    /\ traffic = noTraffic
    /\ mockShutdownOnce = FALSE /\ mockTerminated = FALSE
    /\ mockShutCount = noShutdown
    /\ mockServing = TRUE
    /\ mockShutPc = "none"

\* handleMock, lines 287..304: the request arrives, its body is read and
\* decoded into the shared s.params.  Request r is the r-th to arrive.
HandleMockDecode(r, b) ==
    /\ MockAlive /\ mockServing
    /\ mpc[r] = "idle"
    /\ \A q \in MockReqs : q < r => mpc[q] # "idle"
    /\ mbody' = [mbody EXCEPT ![r] = b]
    /\ IF b.kind = "syntax"
         THEN /\ mresp' = [mresp EXCEPT ![r] = WriteHeader(mresp[r], StatusBadRequest)]
              /\ mpc' = [mpc EXCEPT ![r] = "done"]
              /\ UNCHANGED mockParams
         ELSE /\ mockParams' = UnmarshalMockParams(b)
              /\ mpc' = [mpc EXCEPT ![r] = "validate"]
              /\ UNCHANGED mresp
    /\ UNCHANGED <<mockStatus, mockStartedAt, mockRunningUntil, now, mcas,
                   dlPc, dlWake, dlReset, admitAt, traffic>>
    /\ UNCHANGED mockShutU
    /\ UNCHANGED notMock

\* handleMock, lines 305..344: the checks of s.params
HandleMockValidate(r) ==
    /\ MockAlive
    /\ mpc[r] = "validate"
    /\ IF InvalidMockParams(mockParams)
         THEN /\ mresp' = [mresp EXCEPT ![r] = WriteHeader(mresp[r], StatusBadRequest)]
              /\ mpc' = [mpc EXCEPT ![r] = "done"]
         ELSE /\ mpc' = [mpc EXCEPT ![r] = "cas"]
              /\ UNCHANGED mresp
    /\ UNCHANGED <<mockStatus, mockParams, mockStartedAt, mockRunningUntil, now,
                   mbody, mcas, dlPc, dlWake, dlReset, admitAt, traffic>>
    /\ UNCHANGED mockShutU
    /\ UNCHANGED notMock

\* handleMock, lines 346..353: the compare-and-swap; the 503 branch returns
HandleMockCAS(r) ==
    /\ MockAlive
    /\ mpc[r] = "cas"
    /\ IF MockCompareAndSwap(mockStatus)
         THEN /\ mockStatus' = statusRunning
              /\ mcas' = [mcas EXCEPT ![r] = "won"]
              /\ mpc' = [mpc EXCEPT ![r] = "start"]
              /\ UNCHANGED mresp
         ELSE /\ mcas' = [mcas EXCEPT ![r] = "lost"]
              /\ mresp' = [mresp EXCEPT ![r] =
                             WriteHeader(mresp[r], StatusServiceUnavailable)]
              /\ mpc' = [mpc EXCEPT ![r] = "done"]
              /\ UNCHANGED mockStatus
    /\ UNCHANGED <<mockParams, mockStartedAt, mockRunningUntil, now, mbody,
                   dlPc, dlWake, dlReset, admitAt, traffic>>
    /\ UNCHANGED mockShutU
    /\ UNCHANGED notMock

\* handleMock, lines 354..368: the times, the go statement and the 200
HandleMockStart(r) ==
    /\ MockAlive
    /\ mpc[r] = "start"
    /\ mockStartedAt' = now
    /\ mockRunningUntil' = now + mockParams.Duration
    /\ dlPc' = [dlPc EXCEPT ![r] = "start"]
    /\ mresp' = [mresp EXCEPT ![r] = WriteHeader(mresp[r], StatusOK)]
    /\ mpc' = [mpc EXCEPT ![r] = "done"]
    /\ admitAt' = [admitAt EXCEPT ![r] = now]
    /\ UNCHANGED <<mockStatus, mockParams, now, mbody, mcas, dlWake, dlReset, traffic>>
    /\ UNCHANGED mockShutU
    /\ UNCHANGED notMock

\* line 357: the goroutine is scheduled, reads s.params.Duration and sleeps
DeadlineSleep(r) ==
    /\ MockAlive
    /\ dlPc[r] = "start"
    /\ dlWake' = [dlWake EXCEPT ![r] = now + mockParams.Duration]
    /\ dlPc' = [dlPc EXCEPT ![r] = "sleep"]
    /\ UNCHANGED <<mockStatus, mockParams, mockStartedAt, mockRunningUntil, now,
                   mpc, mbody, mresp, mcas, dlReset, admitAt, traffic>>
    /\ UNCHANGED mockShutU
    /\ UNCHANGED notMock

\* line 358: time.Sleep has returned; s.status.Store(statusReady)
DeadlineStore(r) ==
    /\ MockAlive
    /\ dlPc[r] = "sleep"
    /\ now >= dlWake[r]
    /\ mockStatus' = statusReady
    /\ dlReset' = [dlReset EXCEPT ![r] = now]
    /\ dlPc' = [dlPc EXCEPT ![r] = "exit"]
    /\ UNCHANGED <<mockParams, mockStartedAt, mockRunningUntil, now,
                   mpc, mbody, mresp, mcas, dlWake, admitAt, traffic>>
    /\ UNCHANGED mockShutU
    /\ UNCHANGED notMock

\* handleDefault, lines 163..167: a request to a non-control path while the
\* status is not running
HandleDefaultRefuse ==
    /\ MockAlive /\ mockServing
    /\ NotRunning(mockStatus)
    /\ traffic' = [noTraffic EXCEPT !.seen = mockStatus,
                                    !.code = StatusServiceUnavailable,
                                    !.p = mockParams]
    /\ UNCHANGED <<mockStatus, mockParams, mockStartedAt, mockRunningUntil, now,
                   mpc, mbody, mresp, mcas, dlPc, dlWake, dlReset, admitAt>>
    /\ UNCHANGED mockShutU
    /\ UNCHANGED notMock

\* handleDefault, lines 163..215: a request to a non-control path while the
\* status is running
HandleDefaultServe ==
    /\ MockAlive /\ mockServing
    /\ ~NotRunning(mockStatus)
    /\ \E respDelay \in DrawSet(mockParams.RMin, mockParams.RMax),
          headDelay \in DrawSet(mockParams.HMin, mockParams.HMax) :
          traffic' = [seen |-> mockStatus, code |-> StatusOK, p |-> mockParams,
                      headDelay |-> headDelay, respDelay |-> respDelay,
                      events |-> ServeEvents(headDelay, respDelay)]
    /\ UNCHANGED <<mockStatus, mockParams, mockStartedAt, mockRunningUntil, now,
                   mpc, mbody, mresp, mcas, dlPc, dlWake, dlReset, admitAt>>
    /\ UNCHANGED mockShutU
    /\ UNCHANGED notMock

\* a second passes
Tick ==
    /\ MockAlive
    /\ now < MaxTime
    /\ now' = now + 1
    /\ UNCHANGED <<mockStatus, mockParams, mockStartedAt, mockRunningUntil,
                   mpc, mbody, mresp, mcas, dlPc, dlWake, dlReset, admitAt, traffic>>
    /\ UNCHANGED mockShutU
    /\ UNCHANGED notMock

\* handleService, POST /__service/terminate, and shutdown, lines 145..149
MockHandleTerminate ==
    /\ MockAlive /\ mockServing
    /\ IF OnceDo(mockShutdownOnce)
         THEN /\ mockShutdownOnce' = TRUE /\ mockShutPc' = "shutdown"
              /\ mockShutCount' = [mockShutCount EXCEPT !.runs = @ + 1]
         ELSE UNCHANGED <<mockShutdownOnce, mockShutPc, mockShutCount>>
    /\ UNCHANGED <<mockTerminated, mockServing>>
    /\ UNCHANGED <<mockStatus, mockParams, mockStartedAt, mockRunningUntil, now,
                   mpc, mbody, mresp, mcas, dlPc, dlWake, dlReset, admitAt, traffic>>
    /\ UNCHANGED notMock

\* shutdown, line 153: http.Server.Shutdown closes the listeners first
MockShutdownListeners ==
    /\ MockAlive
    /\ mockShutPc = "shutdown"
    /\ mockServing' = FALSE
    /\ mockShutPc' = "wait"
    /\ UNCHANGED <<mockShutdownOnce, mockTerminated, mockShutCount>>
    /\ UNCHANGED <<mockStatus, mockParams, mockStartedAt, mockRunningUntil, now,
                   mpc, mbody, mresp, mcas, dlPc, dlWake, dlReset, admitAt, traffic>>
    /\ UNCHANGED notMock

\* shutdown, lines 150..155: Shutdown returns, when the handlers have returned
\* or when the 30 s of grace are over, and terminated is closed.
MockShutdownReturns ==
    /\ MockAlive
    /\ mockShutPc = "wait"
    /\ mockShutPc' = "exit"
    /\ mockTerminated' = TRUE
    /\ mockShutCount' = [mockShutCount EXCEPT !.closes = @ + 1]
    /\ UNCHANGED <<mockShutdownOnce, mockServing>>
    /\ UNCHANGED <<mockStatus, mockParams, mockStartedAt, mockRunningUntil, now,
                   mpc, mbody, mresp, mcas, dlPc, dlWake, dlReset, admitAt, traffic>>
    /\ UNCHANGED notMock

MockNext ==
    \/ \E r \in MockReqs, b \in MockBodies : HandleMockDecode(r, b)
    \/ \E r \in MockReqs : HandleMockValidate(r)
    \/ \E r \in MockReqs : HandleMockCAS(r)
    \/ \E r \in MockReqs : HandleMockStart(r)
    \/ \E r \in MockReqs : DeadlineSleep(r)
    \/ \E r \in MockReqs : DeadlineStore(r)
    \/ HandleDefaultRefuse
    \/ HandleDefaultServe
    \/ Tick

(***************************************************************************)
(*                              COLLECTOR                                  *)
(***************************************************************************)
\* NewCollectService, line 42, and the send of line 135: a buffered channel
\* of capacity BufferSize takes a value without a receiver while it holds
\* fewer than BufferSize.
HasRoom(ch) == Len(ch) < BufferSize

ColAlive == ~colTerminated

\* A receive that reports a closed channel as soon as it is closed.
ReceiveNotOkEarly(ch, closed) == closed

\* processResults, lines 185..186: the receive reports !ok when the channel is
\* closed and the values buffered in it have all been received.
ReceiveNotOk(ch, closed) == closed /\ Len(ch) = 0

CollectorInit ==
    /\ colResults = <<>>
    /\ colClosed = FALSE
    /\ colCtxDone = FALSE
    /\ colShutdownOnce = FALSE
    /\ colShutCount = noShutdown
    /\ colTerminated = FALSE
    /\ colRows = <<>>
    /\ colUnflushed = FALSE
    /\ colFileClosed = FALSE
    /\ colServing = TRUE
    /\ colShutPc = "none"
    /\ colWriterPc = "run"
    /\ colPosts = 0
    /\ colRefused = FALSE
    /\ colSel = {}
    /\ colAccepted = 0
    /\ colEnq = <<>>
    /\ colAtClose = -1
    /\ colDropped = 0
    /\ colPanicked = 0

\* handleDefault, lines 122..133: a POST / that is not form encoded, or whose
\* form does not parse, is answered 415 or 400 and goes no further.
HandleDefaultRefused ==
    /\ ColAlive /\ colServing
    /\ colRefused' = TRUE
    /\ UNCHANGED <<colResults, colClosed, colCtxDone, colShutdownOnce,
                   colTerminated, colRows, colUnflushed, colFileClosed,
                   colServing, colShutPc, colWriterPc, colPosts, colSel,
                   colAccepted, colEnq, colDropped, colPanicked,
                   colAtClose>>
    /\ UNCHANGED colShutCount
    /\ UNCHANGED notCollector

\* handleDefault, lines 122..133: a form encoded POST / arrives, its form is
\* parsed and the handler reaches the select.
HandleDefaultArrive ==
    /\ ColAlive /\ colServing
    /\ colPosts < MaxPosts
    /\ Cardinality(colSel) < MaxInflight
    /\ colPosts' = colPosts + 1
    /\ colSel' = colSel \cup {colPosts'}
    /\ UNCHANGED <<colResults, colClosed, colCtxDone, colShutdownOnce,
                   colTerminated, colRows, colUnflushed, colFileClosed,
                   colServing, colShutPc, colWriterPc, colRefused,
                   colAccepted, colEnq, colDropped, colPanicked,
                   colAtClose>>
    /\ UNCHANGED colShutCount
    /\ UNCHANGED notCollector

\* handleDefault, lines 134..138: the select
HandleDefaultSelect(k) ==
    /\ ColAlive
    /\ k \in colSel
    /\ colSel' = colSel \ {k}
    /\ IF colClosed
         THEN /\ colPanicked' = colPanicked + 1
              /\ UNCHANGED <<colResults, colAccepted, colEnq, colDropped>>
         ELSE IF HasRoom(colResults)
                THEN /\ colResults' = Append(colResults, k)
                     /\ colAccepted' = colAccepted + 1
                     /\ colEnq' = Append(colEnq, k)
                     /\ UNCHANGED <<colDropped, colPanicked>>
                ELSE /\ colDropped' = colDropped + 1
                     /\ UNCHANGED <<colResults, colAccepted, colEnq, colPanicked>>
    /\ UNCHANGED <<colClosed, colCtxDone, colShutdownOnce, colTerminated,
                   colRows, colUnflushed, colFileClosed, colServing, colShutPc,
                   colWriterPc, colPosts, colRefused, colAtClose>>
    /\ UNCHANGED colShutCount
    /\ UNCHANGED notCollector

\* processResults, lines 185 and 193: a record is received and written
WriterReceive ==
    /\ ColAlive
    /\ colWriterPc = "run"
    /\ Len(colResults) > 0
    /\ colRows' = Append(colRows, Head(colResults))
    /\ colResults' = Tail(colResults)
    /\ colUnflushed' = TRUE
    /\ UNCHANGED <<colClosed, colCtxDone, colShutdownOnce, colTerminated,
                   colFileClosed, colServing, colShutPc,
                   colWriterPc, colPosts, colSel, colRefused,
                   colAccepted, colEnq, colDropped, colPanicked,
                   colAtClose>>
    /\ UNCHANGED colShutCount
    /\ UNCHANGED notCollector

\* processResults, lines 196..197: the ticker fires and the writer flushes
WriterTick ==
    /\ ColAlive
    /\ colWriterPc = "run"
    /\ colUnflushed' = FALSE
    /\ UNCHANGED <<colResults, colClosed, colCtxDone, colShutdownOnce,
                   colTerminated, colRows, colFileClosed, colServing,
                   colShutPc, colWriterPc, colPosts, colSel, colRefused,
                   colAccepted, colEnq, colDropped, colPanicked,
                   colAtClose>>
    /\ UNCHANGED colShutCount
    /\ UNCHANGED notCollector

\* processResults, lines 177 and 186..191: the channel is closed and empty
WriterClose ==
    /\ ColAlive
    /\ colWriterPc = "run"
    /\ ReceiveNotOk(colResults, colClosed)
    /\ colUnflushed' = FALSE
    /\ colFileClosed' = TRUE
    /\ colWriterPc' = "exit"
    /\ colTerminated' = TRUE
    /\ colShutCount' = [colShutCount EXCEPT !.closes = @ + 1]
    /\ UNCHANGED <<colResults, colClosed, colCtxDone, colShutdownOnce,
                   colRows, colServing, colShutPc, colPosts, colSel, colRefused,
                   colAccepted, colEnq, colDropped, colPanicked,
                   colAtClose>>
    /\ UNCHANGED notCollector

\* handleService, lines 151..154, and shutdown, lines 103..108
ColHandleTerminate ==
    /\ ColAlive /\ colServing
    /\ IF OnceDo(colShutdownOnce)
         THEN /\ colShutdownOnce' = TRUE /\ colShutPc' = "shutdown"
              /\ colShutCount' = [colShutCount EXCEPT !.runs = @ + 1]
         ELSE UNCHANGED <<colShutdownOnce, colShutPc, colShutCount>>
    /\ UNCHANGED <<colResults, colClosed, colCtxDone, colTerminated,
                   colRows, colUnflushed, colFileClosed, colServing,
                   colWriterPc, colPosts, colSel, colRefused,
                   colAccepted, colEnq, colDropped, colPanicked,
                   colAtClose>>
    /\ UNCHANGED notCollector

\* shutdown, line 111: http.Server.Shutdown closes the listeners first
ColShutdownListeners ==
    /\ ColAlive
    /\ colShutPc = "shutdown"
    /\ colServing' = FALSE
    /\ colShutPc' = "wait"
    /\ UNCHANGED <<colResults, colClosed, colCtxDone, colShutdownOnce,
                   colTerminated, colRows, colUnflushed, colFileClosed,
                   colWriterPc, colPosts, colSel, colRefused,
                   colAccepted, colEnq, colDropped, colPanicked,
                   colAtClose>>
    /\ UNCHANGED colShutCount
    /\ UNCHANGED notCollector

\* shutdown, lines 109..114: Shutdown returns, when the handlers have returned
\* or when the 30 s of grace are over, and cancelWrite is called
ColShutdownReturns ==
    /\ ColAlive
    /\ colShutPc = "wait"
    /\ colCtxDone' = TRUE
    /\ colShutPc' = "exit"
    /\ UNCHANGED <<colResults, colClosed, colShutdownOnce,
                   colTerminated, colRows, colUnflushed, colFileClosed,
                   colServing, colWriterPc, colPosts, colSel, colRefused,
                   colAccepted, colEnq, colDropped, colPanicked,
                   colAtClose>>
    /\ UNCHANGED colShutCount
    /\ UNCHANGED notCollector

\* A goroutine that closes the channel without waiting for the context.
CtxDoneNoWait(done) == TRUE

\* Start, line 57: <-ctx.Done() returns once cancelWrite was called
CtxDone(done) == done

\* Start, lines 56..59: the write context is done; close(s.results)
ColCloseResults ==
    /\ ColAlive
    /\ CtxDone(colCtxDone) /\ ~colClosed
    /\ colClosed' = TRUE
    /\ colAtClose' = Len(colResults)
    /\ UNCHANGED <<colResults, colCtxDone, colShutdownOnce,
                   colTerminated, colRows, colUnflushed, colFileClosed,
                   colServing, colShutPc, colWriterPc, colPosts, colSel, colRefused,
                   colAccepted, colEnq, colDropped, colPanicked>>
    /\ UNCHANGED colShutCount
    /\ UNCHANGED notCollector

CollectorNext ==
    \/ HandleDefaultRefused
    \/ HandleDefaultArrive
    \/ \E k \in 1..MaxPosts : HandleDefaultSelect(k)
    \/ WriterReceive
    \/ WriterTick
    \/ WriterClose
    \/ ColHandleTerminate
    \/ ColShutdownListeners
    \/ ColShutdownReturns
    \/ ColCloseResults

(***************************************************************************)
(*                    A WORKER OF runTesters, AND TestResult               *)
(***************************************************************************)
\* part_000, attrNames: the nine columns in their order
attrNames == <<"ReqTime", "TestName", "ReqID", "ReqNum", "ReqMethod",
               "ReqPath", "RespCode", "RoundDuration", "TimedOut">>

trResponseCode == 7
trRoundDuration == 8
trTimedOut == 9

\* var tRes shared.TestResult: nine empty strings
zeroResult == [i \in 1..Len(attrNames) |-> ""]

DigitText(d) ==
    CASE d = 0 -> "0" [] d = 1 -> "1" [] d = 2 -> "2" [] d = 3 -> "3"
      [] d = 4 -> "4" [] d = 5 -> "5" [] d = 6 -> "6" [] d = 7 -> "7"
      [] d = 8 -> "8" [] d = 9 -> "9"

RECURSIVE NatText(_)
NatText(n) == IF n < 10 THEN DigitText(n)
              ELSE NatText(n \div 10) \o DigitText(n % 10)

\* strconv.Itoa, strconv.FormatInt(_, 10)
Itoa(n) == IF n < 0 THEN "-" \o NatText(-n) ELSE NatText(n)

\* Duration.String: the milliseconds and "ms"
DurationString(ms) == Itoa(ms) \o "ms"

\* TestResult.SetTimedOut
SetTimedOut(r, v) ==
    [r EXCEPT ![trTimedOut] = IF v THEN "true" ELSE "false"]

SetResponseCode(r, code) == [r EXCEPT ![trResponseCode] = Itoa(code)]

SetRoundDuration(r, ms) == [r EXCEPT ![trRoundDuration] = DurationString(ms)]

\* What a target does with one request: it refuses the connection at instant
\* at ("refused"), or it sends the response headers at instant head and the
\* last byte of the body at instant done ("served").
Targets ==
    [kind : {"refused"}, at : 0..MaxDelay, head : {0}, done : {0}, code : {0}]
    \cup {t \in [kind : {"served"}, at : {0}, head : 0..MaxDelay,
                 done : 0..MaxDelay, code : {200, 503}] : t.head <= t.done}

\* client.Do under reqCtx, line 520: it returns when the headers are read, or
\* with the error of the transport, or with DeadlineExceeded when the timeout
\* of reqCtx comes first.  The instant of the return comes with it.
ClientDo(t, timeout) ==
    LET limit == IF timeout < 0 THEN 0 ELSE timeout
        ready == IF t.kind = "refused" THEN t.at ELSE t.head
    IN  IF ready >= limit
          THEN [err |-> "deadline", resp |-> 0, at |-> limit]
        ELSE IF t.kind = "refused"
          THEN [err |-> "other", resp |-> 0, at |-> ready]
        ELSE [err |-> "", resp |-> t.code, at |-> ready]

\* runTesters, lines 519..539: the record of one request
RecordOf(t, timeout) ==
    LET got == ClientDo(t, timeout)
        r1 == IF got.err # ""
                THEN (IF got.err = "deadline" THEN SetTimedOut(zeroResult, TRUE)
                                              ELSE zeroResult)
                ELSE SetTimedOut(zeroResult, FALSE)
        r2 == SetRoundDuration(r1, got.at)
    IN  IF got.resp # 0 THEN SetResponseCode(r2, got.resp) ELSE r2

noRequest == [target |-> [kind |-> "none", at |-> 0, head |-> 0, done |-> 0,
                          code |-> 0],
              timeout |-> 0, elapsed |-> 0, record |-> zeroResult]

\* runTesters, lines 463..545: one turn of the loop of a worker of a run
WorkerRequest(g, t) ==
    /\ Alive
    /\ testersPc[g] = "run"
    /\ lastReq' = [target |-> t, timeout |-> params.Timeout,
                   elapsed |-> ClientDo(t, params.Timeout).at,
                   record |-> RecordOf(t, params.Timeout)]
    /\ UNCHANGED <<testerVars, runVars, mockVars, collectorVars, ctl, wire,
                   codec>>

(***************************************************************************)
(*                  THE CONVERSIONS OF THE SHARED PACKAGE                  *)
(***************************************************************************)
notWire == <<testerVars, runVars, mockVars, collectorVars, ctl, lastReq, codec>>

noWire == [op |-> "none"]

AttrKeys == {attrNames[i] : i \in 1..Len(attrNames)}

\* the column of a name
AttrIndex(n) == CHOOSE i \in 1..Len(attrNames) : attrNames[i] = n

\* A Get that returns the last value of the key.
GetLast(vs, n) ==
    IF n \in DOMAIN vs /\ Len(vs[n]) > 0 THEN vs[n][Len(vs[n])] ELSE ""

\* url.Values.Get: the first value of the key, "" when the key has none
Get(vs, n) ==
    IF n \in DOMAIN vs /\ Len(vs[n]) > 0 THEN vs[n][1] ELSE ""

\* part_000, lines 85..91
NewTestResult(vs) == [i \in 1..Len(attrNames) |-> Get(vs, attrNames[i])]

\* part_000, lines 133..139: m.Set(name, r[i]) for each of the nine names
URLValues(r) == [n \in AttrKeys |-> <<r[AttrIndex(n)]>>]

\* part_000, lines 141..143: r[:]
Slice(r) == [i \in 1..Len(attrNames) |-> r[i]]

\* url.Values: a map from keys to lists of values.  The form value sets of
\* the model give every key one value "x", but for three of the nine keys and
\* a tenth key, each of which is absent or has a list of the values below.
VaryKeys == {"ReqTime", "RespCode", "TimedOut", "Other"}
ValueLists == {<<>>, <<"">>, <<"a">>, <<"a", "b">>}
FormValueSets ==
    UNION { { [n \in (AttrKeys \ VaryKeys) \cup D |->
                 IF n \in D THEN f[n] ELSE <<"x">>] : f \in [D -> ValueLists] }
            : D \in SUBSET VaryKeys }

\* the records of the model: the three columns vary, the others hold "x"
Records ==
    { [i \in 1..Len(attrNames) |->
         IF attrNames[i] \in DOMAIN f THEN f[attrNames[i]] ELSE "x"]
      : f \in [VaryKeys \cap AttrKeys -> {"", "a", "b"}] }

\* a form value set arrives at the Collector and is turned into a record
WireDecode(vs) ==
    /\ wire' = [op |-> "decode", vs |-> vs, r |-> NewTestResult(vs),
                back |-> URLValues(NewTestResult(vs)),
                slice |-> Slice(NewTestResult(vs))]
    /\ UNCHANGED notWire

\* a record of the Tester is turned into form values
WireEncode(r) ==
    /\ wire' = [op |-> "encode", r |-> r, vs |-> URLValues(r),
                back |-> NewTestResult(URLValues(r)), slice |-> Slice(r)]
    /\ UNCHANGED notWire

WireNext ==
    \/ \E vs \in FormValueSets : WireDecode(vs)
    \/ \E r \in Records : WireEncode(r)

(***************************************************************************)
(*             THE JSON FORMS OF THE TESTER'S CONFIGURATION                *)
(***************************************************************************)
notCodec == <<testerVars, runVars, mockVars, collectorVars, ctl, lastReq, wire>>

noCodec == [op |-> "none"]

\* A Go string is a text: a sequence of symbols.  A symbol is one character,
\* or a whole word that no conversion looks into ("http", "GET", ...).
\* A JSON value is the literal null, a string, a number, an array or an
\* object (a function from keys to JSON values).
JNull == [t |-> "null"]
JStr(s) == [t |-> "string", s |-> s]
JNum(s) == [t |-> "number", s |-> s]
JArr(a) == [t |-> "array", a |-> a]
JObj(o) == [t |-> "object", o |-> o]
JBool(b) == [t |-> "bool", b |-> b]

\* what a conversion returns: a value, or an error
ok(v) == [err |-> FALSE, v |-> v]
failed == [err |-> TRUE]

\* json.Unmarshal(data, &s) with s a string that holds "": null leaves s
\* alone, a JSON string is stored, any other value is an error
StringOf(data) ==
    IF data.t = "null" THEN ok(<<>>)
    ELSE IF data.t = "string" THEN ok(data.s)
    ELSE failed

DigitSyms == {DigitText(d) : d \in 0..9}
DigitValue(c) == CHOOSE d \in 0..9 : DigitText(d) = c

RECURSIVE NatSyms(_)
NatSyms(n) == IF n < 10 THEN <<DigitText(n)>>
              ELSE Append(NatSyms(n \div 10), DigitText(n % 10))

\* strconv.FormatInt(n, 10) and strconv.Itoa(n), as a text
FormatInt(n) == IF n < 0 THEN <<"-">> \o NatSyms(-n) ELSE NatSyms(n)

RECURSIVE SymsValue(_)
SymsValue(s) == IF s = <<>> THEN 0
                ELSE SymsValue(SubSeq(s, 1, Len(s) - 1)) * 10
                        + DigitValue(s[Len(s)])

\* strconv.ParseUint(s, 10, bitSize): digits only, at least one, and a value
\* below 2^bitSize (texts of more than nine digits are out of every range
\* used here)
ParseUint(s, bitSize) ==
    IF s = <<>> \/ \E i \in 1..Len(s) : s[i] \notin DigitSyms THEN failed
    ELSE IF Len(s) > 9 THEN failed
    ELSE IF SymsValue(s) >= 2^bitSize THEN failed
    ELSE ok(SymsValue(s))

\* strings.HasSuffix
HasSuffix(s, u) ==
    Len(s) >= Len(u) /\ SubSeq(s, Len(s) - Len(u) + 1, Len(s)) = u

\* strings.Split(s, sep) for a separator of one symbol
RECURSIVE Split(_, _)
Split(s, sep) ==
    IF \A i \in 1..Len(s) : s[i] # sep THEN <<s>>
    ELSE LET i == CHOOSE k \in 1..Len(s) :
                     s[k] = sep /\ \A j \in 1..(k - 1) : s[j] # sep
         IN  <<SubSeq(s, 1, i - 1)>> \o Split(SubSeq(s, i + 1, Len(s)), sep)

\* ---- shared.Duration.  A Duration of the model counts microseconds (the
\* ---- type counts nanoseconds), so that a minute is a small number.
Millisecond == 1000
Second == 1000 * Millisecond
Minute == 60 * Second

\* time.Duration.Milliseconds: the whole milliseconds, rounded toward zero
Milliseconds(d) ==
    IF d < 0 THEN -((-d) \div Millisecond) ELSE d \div Millisecond

\* part_000, lines 18..24
DurationMarshalJSON(d) ==
    IF d = 0 THEN ok(JNull)
    ELSE ok(JStr(FormatInt(Milliseconds(d)) \o <<"m", "s">>))

\* the unit table of time.ParseDuration, without "ns" and "h"
UnitTicks(u) ==
    IF u = <<"u", "s">> THEN 1
    ELSE IF u = <<"m", "s">> THEN Millisecond
    ELSE IF u = <<"s">> THEN Second
    ELSE IF u = <<"m">> THEN Minute
    ELSE 0

RECURSIVE LeadingDigits(_)
LeadingDigits(s) ==
    IF s # <<>> /\ Head(s) \in DigitSyms THEN 1 + LeadingDigits(Tail(s))
    ELSE 0

\* time.ParseDuration for the texts "[+-]digits unit" and "0": the texts
\* with a fraction or with several units are none of the model's
ParseDuration(s) ==
    LET neg == s # <<>> /\ Head(s) = "-"
        pos == s # <<>> /\ Head(s) = "+"
        t == IF neg \/ pos THEN Tail(s) ELSE s
        n == LeadingDigits(t)
        digits == SubSeq(t, 1, n)
        unit == SubSeq(t, n + 1, Len(t))
    IN  IF t = <<"0">> THEN ok(0)
        ELSE IF n = 0 \/ n > 6 \/ UnitTicks(unit) = 0 THEN failed
        ELSE ok((IF neg THEN -1 ELSE 1) * SymsValue(digits) * UnitTicks(unit))

\* part_000, lines 26..51: json.Unmarshal into the string s, the check of the
\* suffix of s, time.ParseDuration(s)
DurationUnmarshalJSON(data) ==
    LET s == StringOf(data)
    IN  IF s.err THEN failed
        ELSE IF ~ \/ HasSuffix(s.v, <<"m", "s">>)
                  \/ HasSuffix(s.v, <<"s">>)
                  \/ HasSuffix(s.v, <<"m">>)
          THEN failed
        ELSE ParseDuration(s.v)

\* ---- pace: an unsigned 16-bit number of requests per minute
PaceBits == 16
PaceUnits == {<<"r", "p", "s">>, <<"r", "p", "m">>, <<"r", "p", "h">>}

\* the conversion of an unsigned 64-bit value to pace(...): the low 16 bits
Uint16(n) == n % (2^PaceBits)

\* math.Round(float64(v) / 60) for v >= 0: the nearest integer, a half away
\* from zero (v / 60 is a half exactly when v is 30 more than a multiple of 60)
RoundDiv60(v) == (v + 30) \div 60

\* part_002, lines 233..236
PaceMarshalJSON(p) == ok(JStr(FormatInt(p) \o <<"r", "p", "m">>))

\* part_002, lines 238..278
PaceUnmarshalJSON(data) ==
    LET s == StringOf(data)
    IN  IF s.err THEN failed
        ELSE IF \A u \in PaceUnits : ~HasSuffix(s.v, u) THEN failed
        ELSE LET v == SubSeq(s.v, 1, Len(s.v) - 3)
                 u == SubSeq(s.v, Len(s.v) - 2, Len(s.v))
                 n == ParseUint(v, PaceBits)
             IN  IF n.err THEN failed
                 ELSE IF u = <<"r", "p", "h">> THEN ok(Uint16(RoundDiv60(n.v)))
                 ELSE IF u = <<"r", "p", "m">> THEN ok(Uint16(n.v))
                 ELSE ok(Uint16(n.v * 60))

\* ---- version: [2]uint8, v[0] the major and v[1] the minor number
\* part_002, lines 199..202
VersionMarshalJSON(v) ==
    ok(JStr(FormatInt(v[1]) \o <<".">> \o FormatInt(v[2])))

\* part_002, lines 204..227
VersionUnmarshalJSON(data) ==
    LET s == StringOf(data)
    IN  IF s.err THEN failed
        ELSE LET fields == Split(s.v, ".")
             IN  IF Len(fields) # 2 THEN failed
                 ELSE LET major == ParseUint(fields[1], 8)
                          minor == ParseUint(fields[2], 8)
                      IN  IF major.err \/ minor.err THEN failed
                          ELSE ok(<<major.v, minor.v>>)

\* ---- schema, choice, method: a string of a fixed set
Schemas == {<<"http">>, <<"https">>}
Choices == {<<"roundrobin">>, <<"random">>}
validMethods == {<<"GET">>, <<"HEAD">>, <<"POST">>, <<"PUT">>, <<"PATCH">>,
                 <<"DELETE">>, <<"CONNECT">>, <<"OPTIONS">>, <<"TRACE">>}

\* part_002, lines 106..113, 134..141, 174..179
EnumMarshalJSON(s, allowed) == IF s \in allowed THEN ok(JStr(s)) ELSE failed

\* part_002, lines 115..128, 143..156, 181..193
EnumUnmarshalJSON(data, allowed) ==
    LET s == StringOf(data)
    IN  IF s.err THEN failed
        ELSE IF s.v \in allowed THEN ok(s.v)
        ELSE failed

SchemaMarshalJSON(s) == EnumMarshalJSON(s, Schemas)
SchemaUnmarshalJSON(data) == EnumUnmarshalJSON(data, Schemas)
ChoiceMarshalJSON(c) == EnumMarshalJSON(c, Choices)
ChoiceUnmarshalJSON(data) == EnumUnmarshalJSON(data, Choices)
MethodMarshalJSON(m) == EnumMarshalJSON(m, validMethods)
MethodUnmarshalJSON(data) == EnumUnmarshalJSON(data, validMethods)

\* ---- the fields without a method of their own (encoding/json)
\* a uint8: a number on the way out; on the way in null leaves the zero
\* value, a number is parsed in 8 bits, any other value is an error
Uint8Unmarshal(data) ==
    IF data.t = "null" THEN ok(0)
    ELSE IF data.t = "number" THEN ParseUint(data.s, 8)
    ELSE failed

\* the object has the key: only then is the method of its field called, and
\* the field keeps its zero value otherwise
Present(o, k) == k \in DOMAIN o

\* ---- request
\* textproto.CanonicalMIMEHeaderKey, for the keys of the model
CanonicalMIMEHeaderKey(k) ==
    IF k = "x-test" THEN "X-Test"
    ELSE IF k = "connection" THEN "Connection"
    ELSE k

noHeader == [k \in {} |-> <<>>]

\* an http.Header (a map from keys to lists of strings) as JSON
HeaderMarshal(h) ==
    JObj([k \in DOMAIN h |-> JArr([i \in 1..Len(h[k]) |-> JStr(h[k][i])])])

\* part_002, lines 79..97: a string is Set, the strings of an array are
\* Added, an array with another value in it is an error, and a value that
\* is neither is passed over
HeaderUnmarshal(data) ==
    IF data.t = "null" THEN ok(noHeader)
    ELSE IF data.t # "object" THEN failed
    ELSE LET o == data.o
             bad == {k \in DOMAIN o :
                        /\ o[k].t = "array"
                        /\ \E i \in 1..Len(o[k].a) : o[k].a[i].t # "string"}
             vals(k) == IF o[k].t = "string" THEN <<o[k].s>>
                        ELSE IF o[k].t = "array"
                          THEN [i \in 1..Len(o[k].a) |-> o[k].a[i].s]
                        ELSE <<>>
             set == {k \in DOMAIN o : vals(k) # <<>>}
         IN  IF bad # {} THEN failed
             ELSE ok([c \in {CanonicalMIMEHeaderKey(k) : k \in set} |->
                        vals(CHOOSE k \in set :
                                CanonicalMIMEHeaderKey(k) = c)])

\* json.Marshal of a request (part_002, lines 60..65)
RequestMarshal(r) ==
    LET m == MethodMarshalJSON(r.Method)
    IN  IF m.err THEN failed
        ELSE ok(JObj([method |-> m.v, path |-> JStr(r.Path),
                      header |-> HeaderMarshal(r.Header),
                      body |-> JStr(r.Body)]))

\* part_002, lines 67..100
RequestUnmarshalJSON(data) ==
    IF data.t # "object" THEN failed
    ELSE LET o == data.o
             m == IF Present(o, "method") THEN MethodUnmarshalJSON(o.method)
                  ELSE ok(<<>>)
             p == IF Present(o, "path") THEN StringOf(o.path)
                  ELSE ok(<<>>)
             h == IF Present(o, "header") THEN HeaderUnmarshal(o.header)
                  ELSE ok(noHeader)
             b == IF Present(o, "body") THEN StringOf(o.body)
                  ELSE ok(<<>>)
         IN  IF m.err \/ p.err \/ h.err \/ b.err THEN failed
             ELSE ok([Method |-> m.v, Path |-> p.v, Header |-> h.v,
                      Body |-> b.v])

\* ---- params
\* json.Marshal of a params (part_002, lines 18..29)
ParamsMarshal(p) ==
    LET d == DurationMarshalJSON(p.Duration)
        pa == PaceMarshalJSON(p.Pace)
        t == DurationMarshalJSON(p.Timeout)
        c == ChoiceMarshalJSON(p.Choice)
        s == SchemaMarshalJSON(p.ReqSchema)
        v == VersionMarshalJSON(p.ReqVersion)
        reqs == [i \in 1..Len(p.Requests) |-> RequestMarshal(p.Requests[i])]
    IN  IF c.err \/ s.err \/ \E i \in 1..Len(reqs) : reqs[i].err THEN failed
        ELSE ok(JObj([name |-> JStr(p.Name), duration |-> d.v, pace |-> pa.v,
                      parallelTesters |-> JNum(FormatInt(p.ParallelTesters)),
                      timeout |-> t.v, choice |-> c.v, reqSchema |-> s.v,
                      reqVersion |-> v.v, reqIDHeader |-> JStr(p.ReqIDHeader),
                      requests |->
                         JArr([i \in 1..Len(reqs) |-> reqs[i].v])]))

\* the raw messages of the key "requests"
RawRequests(data) ==
    IF data.t = "null" THEN ok(<<>>)
    ELSE IF data.t = "array" THEN ok(data.a)
    ELSE failed

\* part_002, lines 31..56
ParamsUnmarshalJSON(data) ==
    IF data.t # "object" THEN failed
    ELSE LET o == data.o
             n == IF Present(o, "name") THEN StringOf(o.name)
                  ELSE ok(<<>>)
             d == IF Present(o, "duration") THEN DurationUnmarshalJSON(o.duration)
                  ELSE ok(0)
             pa == IF Present(o, "pace") THEN PaceUnmarshalJSON(o.pace)
                   ELSE ok(0)
             pt == IF Present(o, "parallelTesters") THEN Uint8Unmarshal(o.parallelTesters)
                   ELSE ok(0)
             t == IF Present(o, "timeout") THEN DurationUnmarshalJSON(o.timeout)
                  ELSE ok(0)
             c == IF Present(o, "choice") THEN ChoiceUnmarshalJSON(o.choice)
                  ELSE ok(<<>>)
             s == IF Present(o, "reqSchema") THEN SchemaUnmarshalJSON(o.reqSchema)
                  ELSE ok(<<>>)
             v == IF Present(o, "reqVersion") THEN VersionUnmarshalJSON(o.reqVersion)
                  ELSE ok(<<0, 0>>)
             h == IF Present(o, "reqIDHeader") THEN StringOf(o.reqIDHeader)
                  ELSE ok(<<>>)
             raw == IF Present(o, "requests") THEN RawRequests(o.requests)
                    ELSE ok(<<>>)
             reqs == [i \in 1..Len(raw.v) |-> RequestUnmarshalJSON(raw.v[i])]
         IN  IF \/ n.err \/ d.err \/ pa.err \/ pt.err \/ t.err \/ c.err
                \/ s.err \/ v.err \/ h.err \/ raw.err
               THEN failed
             ELSE IF \E i \in 1..Len(reqs) : reqs[i].err THEN failed
             ELSE ok([Name |-> n.v, Duration |-> d.v, Pace |-> pa.v,
                      ParallelTesters |-> pt.v, Timeout |-> t.v,
                      Choice |-> c.v, ReqSchema |-> s.v, ReqVersion |-> v.v,
                      ReqIDHeader |-> h.v,
                      Requests |-> [i \in 1..Len(reqs) |-> reqs[i].v]])

\* handleTest, lines 183..191
ApplyDefaults(p) ==
    [p EXCEPT !.ReqSchema = IF @ = <<>> THEN <<"http">> ELSE @,
              !.ReqVersion = IF @ = <<0, 0>> THEN <<1, 1>> ELSE @,
              !.ReqIDHeader = IF @ = <<>> THEN <<"X-Request-ID">> ELSE @]

\* handleTest, lines 158..191, without the check of the duration: the body
\* is parsed into the params and the defaults are applied
LoadParams(data) ==
    LET p == ParamsUnmarshalJSON(data)
    IN  IF p.err THEN failed ELSE ok(ApplyDefaults(p.v))

\* ---- the values of the model
\* spans of half a millisecond each, from zero
HalfMillisecond == Millisecond \div 2
DurationValues == {k * HalfMillisecond : k \in 0..MaxHalfMillis}

HeaderKeys == {"Connection", "X-Test", "x-test"}
HeaderValueLists == {<<<<"a">>>>, <<<<"a">>, <<"b">>>>}

\* the headers of the model: no two keys with one canonical form
Headers ==
    UNION { [D -> HeaderValueLists] :
            D \in {E \in SUBSET HeaderKeys :
                     \A j, k \in E : CanonicalMIMEHeaderKey(j) =
                                       CanonicalMIMEHeaderKey(k) => j = k} }

ModelRequests ==
    [Method : {<<"GET">>}, Path : {<<"/api/status">>}, Header : Headers,
     Body : {<<>>}]

ModelParams ==
    [Name : {<<"test-run-001">>}, Duration : DurationValues,
     Pace : {0, 6000}, ParallelTesters : {10},
     Timeout : DurationValues, Choice : Choices, ReqSchema : Schemas,
     ReqVersion : {<<1, 1>>, <<2, 0>>}, ReqIDHeader : {<<"X-Request-ID">>},
     Requests : {<<r>> : r \in ModelRequests}]

\* a params is serialised, and the text is loaded as handleTest loads a
\* body; a behaviour makes one conversion
ParamsRoundTrip(p) ==
    /\ codec = noCodec
    /\ codec' = LET text == ParamsMarshal(p)
                IN  [op |-> "params", p |-> p, text |-> text,
                     back |-> IF text.err THEN failed
                              ELSE LoadParams(text.v)]
    /\ UNCHANGED notCodec

\* a pace text "<x><unit>" is parsed
PaceParse(x, u) ==
    /\ codec = noCodec
    /\ codec' = [op |-> "pace", x |-> x, unit |-> u,
                 val |-> PaceUnmarshalJSON(JStr(FormatInt(x) \o u))]
    /\ UNCHANGED notCodec

\* The JSON values a header key is given: a string, arrays of strings, the
\* other types, arrays with an element that is no string.
HeaderJSONValues ==
    { JStr(<<"a">>),
      JArr(<<>>), JArr(<<JStr(<<"a">>)>>),
      JArr(<<JStr(<<"a">>), JStr(<<"b">>)>>),
      JArr(<<JStr(<<"b">>), JStr(<<"a">>)>>),
      JArr(<<JStr(<<"a">>), JStr(<<"b">>), JStr(<<"c">>)>>),
      JNum(<<"1">>), JBool(TRUE), JObj(noHeader), JNull,
      JArr(<<JStr(<<"a">>), JNum(<<"1">>)>>), JArr(<<JNull>>) }

\* the configuration of part_003, lines 9..31, with the header object h
ConfigWith(h) ==
    JObj([name |-> JStr(<<"test-run-001">>),
          duration |-> JStr(<<"5", "m">>),
          pace |-> JStr(<<"6", "0", "0", "0", "r", "p", "m">>),
          parallelTesters |-> JNum(<<"1", "0">>),
          timeout |-> JStr(<<"5", "s">>),
          choice |-> JStr(<<"roundrobin">>),
          reqSchema |-> JStr(<<"https">>),
          reqVersion |-> JStr(<<"1", ".", "1">>),
          reqIDHeader |-> JStr(<<"X-Request-ID">>),
          requests |-> JArr(<<JObj([method |-> JStr(<<"GET">>),
                                     path |-> JStr(<<"/api/status">>),
                                     header |-> JObj(h)])>>)])

\* a configuration whose request has the header object h is loaded
HeaderParse(h) ==
    /\ codec = noCodec
    /\ codec' = [op |-> "header", h |-> h, val |-> LoadParams(ConfigWith(h))]
    /\ UNCHANGED notCodec

HeaderNext ==
    /\ codec = noCodec
    /\ \E h \in [{"Connection", "X-Test"} -> HeaderJSONValues] : HeaderParse(h)

\* the units of the duration texts of the model: the three of the
\* specification, two more of time.ParseDuration, one that is no unit, none
DurationUnits == {<<"m", "s">>, <<"s">>, <<"m">>, <<"u", "s">>, <<"h">>,
                  <<"x">>, <<>>}

\* the texts "<x><unit>" of the model, "250ms" among them
DurationInputs ==
    ((0..MaxDurationNumber) \X DurationUnits) \cup {<<250, <<"m", "s">>>>}

\* a duration text "<x><unit>" is parsed
DurationParse(x, u) ==
    /\ codec = noCodec
    /\ codec' = [op |-> "duration", x |-> x, unit |-> u,
                 val |-> DurationUnmarshalJSON(JStr(FormatInt(x) \o u))]
    /\ UNCHANGED notCodec

\* ---- pacing
\* runTesters, lines 367..370: floor(6.0e4 / pace) milliseconds.  For the
\* pace 0 the quotient is +Inf and its conversion to int64 depends on the
\* processor: the least int64 (amd64) or the greatest (arm64), and the
\* product with time.Millisecond wraps to 0 or to -1 ms.
TargetDuration(p) ==
    IF p = 0 THEN {0, -Millisecond}
    ELSE {(60000 \div p) * Millisecond}

\* line 396: targetDuration * time.Duration(s.params.ParallelTesters)
WorkerTargetDuration(t, n) == t * n

\* Duration.Truncate(m) of a duration that is not negative
Truncate(d, m) == d - (d % m)

\* A worker that sleeps its whole slot after a request.
PacingSleepWhole(target, elapsed) ==
    IF elapsed < target THEN target ELSE 0

\* lines 543..545: the sleep after a request, 0 for none
PacingSleep(target, elapsed) ==
    IF elapsed < target THEN target - elapsed ELSE 0

\* The pace texts of SpecPacing and the instants, in microseconds after the
\* start of a request, at which line 531 reads the clock.
PacedTexts ==
    { <<0, <<"r", "p", "m">>>>, <<1, <<"r", "p", "m">>>>,
      <<7, <<"r", "p", "m">>>>, <<60, <<"r", "p", "m">>>>,
      <<1, <<"r", "p", "s">>>>, <<3600, <<"r", "p", "h">>>>,
      <<500, <<"r", "p", "s">>>>, <<30000, <<"r", "p", "m">>>>,
      <<60000, <<"r", "p", "m">>>>, <<65535, <<"r", "p", "m">>>> }
PacedInstants ==
    {k * HalfMillisecond : k \in 0..MaxElapsedHalfMillis}
      \cup {Second - HalfMillisecond, Second, Second + HalfMillisecond}

\* lines 502..546 of one iteration of a worker of a run of n workers whose
\* pace was given as text: the request starts at instant 0, line 531 reads
\* the clock at instant real, and late is the time the worker takes besides
\* its sleep before the next request starts.
PacedRequest(text, n, real, late) ==
    /\ codec = noCodec
    /\ LET p == PaceUnmarshalJSON(JStr(FormatInt(text[1]) \o text[2]))
       IN  /\ ~p.err
           /\ \E t \in TargetDuration(p.v) :
                 LET target == WorkerTargetDuration(t, n)
                     elapsed == Truncate(real, Millisecond)
                     slept == PacingSleep(target, elapsed)
                 IN  codec' = [op |-> "pacing", text |-> text, pace |-> p.v,
                               n |-> n, target |-> target, real |-> real,
                               elapsed |-> elapsed, slept |-> slept,
                               next |-> real + slept + late]
    /\ UNCHANGED notCodec

PacingNext ==
    /\ codec = noCodec
    /\ \E text \in PacedTexts, n \in 0..MaxPacedTesters,
          real \in PacedInstants, late \in {0, 1} :
             PacedRequest(text, n, real, late)

DurationNext ==
    /\ codec = noCodec
    /\ \E i \in DurationInputs : DurationParse(i[1], i[2])

ParamsNext ==
    /\ codec = noCodec
    /\ \E p \in ModelParams : ParamsRoundTrip(p)

\* every text of at most 2^16, the first number that is not a uint16
PaceNext ==
    /\ codec = noCodec
    /\ \E x \in 0..(2^PaceBits), u \in PaceUnits : PaceParse(x, u)

(***************************************************************************)
(*                            CONTROL PLANE                                *)
(***************************************************************************)
Services == {"tester", "mock", "collector"}
Methods == {"GET", "POST", "PUT"}
Paths == {"/test", "/__mock", "/__service", "/__service/",
          "/__service/terminate", "/__service/terminate/",
          "/__service/other", "/"}

\* the paths below "/__service/"
ServiceSubtree == {"/__service/", "/__service/terminate",
                   "/__service/terminate/", "/__service/other"}

noExchange == [svc |-> "none", method |-> "", path |-> "", code |-> 0,
               allow |-> "", location |-> "", status |-> "",
               duration |-> FALSE]

Answer(svc, method, path, code) ==
    [noExchange EXCEPT !.svc = svc, !.method = method, !.path = path,
                       !.code = code]

\* http.ServeMux with the patterns that Start registers: "/test" and
\* "/__service/" in the Tester; "/", "/__service/" and "/__mock" in the Mock;
\* "/" and "/__service/" in the Collector.  A path that is a registered
\* subtree without its trailing slash is redirected to the subtree.
MuxRoute(svc, path) ==
    IF path \in ServiceSubtree THEN "handleService"
    ELSE IF path = "/__service" THEN "redirect"
    ELSE IF svc = "tester"
      THEN (IF path = "/test" THEN "handleTest" ELSE "notfound")
    ELSE IF svc = "mock"
      THEN (IF path = "/__mock" THEN "handleMock" ELSE "handleDefault")
    ELSE "handleDefault"

\* handleService of the Tester and of the Mock, case "/__service", "/__service/"
StatusPaths == {"/__service", "/__service/"}

TerminatePaths == {"/__service/terminate", "/__service/terminate/"}

\* tester/service.go 253..261, mock/service.go 231..239: the status text
StatusText(svc, st) ==
    IF st = statusReady THEN "ready"
    ELSE IF svc = "tester" /\ st = statusTesting THEN "testing"
    ELSE IF svc = "mock" /\ st = statusRunning THEN "running"
    ELSE IF st = statusStopping THEN "stopping"
    ELSE ""

ActiveStatus(svc) == IF svc = "tester" THEN statusTesting ELSE statusRunning

\* body.Duration is set in the active state to time.Until(s.runningUntil) and
\* the field is omitted (omitempty) when it is zero.
DurationPresent(svc, st, remaining) == st = ActiveStatus(svc) /\ remaining # 0

\* time.Until(s.runningUntil): the Mock of the model has a clock; the time of
\* the Tester is not modelled, any reading is possible.
Remaining(svc) ==
    IF svc = "mock" THEN {mockRunningUntil - now} ELSE {-1, 0, 1}

\* handleService: the answer to a request that is not POST terminate
HandleServiceAnswer(svc, method, path, st, remaining) ==
    IF svc # "collector" /\ path \in StatusPaths
      THEN IF method = "GET"
             THEN [Answer(svc, method, path, StatusOK) EXCEPT
                      !.status = StatusText(svc, st),
                      !.duration = DurationPresent(svc, st, remaining)]
             ELSE [Answer(svc, method, path, StatusMethodNotAllowed) EXCEPT
                      !.allow = "GET"]
    ELSE IF path \in TerminatePaths
      THEN [Answer(svc, method, path, StatusMethodNotAllowed) EXCEPT
               !.allow = "POST"]
    ELSE Answer(svc, method, path, StatusNotFound)

\* the requests that the other actions model: they change their service
ChangesState(svc, method, path) ==
    \/ method = "POST" /\ path \in TerminatePaths
    \/ method = "POST" /\ MuxRoute(svc, path) \in {"handleTest", "handleMock"}
    \/ MuxRoute(svc, path) = "handleDefault" /\ (svc = "mock" \/ method = "POST")

ServiceUp(svc) ==
    IF svc = "tester" THEN Alive /\ serving
    ELSE IF svc = "mock" THEN MockAlive /\ mockServing
    ELSE ColAlive /\ colServing

\* One request to the control plane of svc, from the mux to the answer.
ControlRequest(svc, method, path) ==
    /\ ServiceUp(svc)
    /\ ~ChangesState(svc, method, path)
    /\ \E remaining \in Remaining(svc) :
       LET h == MuxRoute(svc, path)
           st == IF svc = "tester" THEN status ELSE mockStatus
       IN ctl' =
            IF h = "redirect"
              THEN [Answer(svc, method, path, StatusMovedPermanently) EXCEPT
                       !.location = "/__service/"]
            ELSE IF h = "notfound"
              THEN Answer(svc, method, path, StatusNotFound)
            ELSE IF h = "handleService"
              THEN HandleServiceAnswer(svc, method, path, st, remaining)
            ELSE [Answer(svc, method, path, StatusMethodNotAllowed) EXCEPT
                     !.allow = "POST"]
    /\ UNCHANGED <<testerVars, runVars, mockVars, collectorVars, lastReq, wire,
                   codec>>
\* ------------------------------------------------------------------------
\* The run: runTesters, its workers and the sender, statement by statement.
\* A record is what a worker sends: ReqNum (num), the iteration of the worker
\* that made it (k) and the path of the template it was built from.
\* ------------------------------------------------------------------------

Workers == 1..NumWorkers

notRun == <<mockVars, collectorVars, ctl, lastReq, wire, codec>>
handlersU == <<pc, body, resp, cas, arr>>
notCrashedU == <<shutdownOnce, terminated, shutCount, serving, shutPc>>

noRecord == [run |-> 0, w |-> 0, num |-> 0, k |-> 0, path |-> ""]

RunInit ==
    /\ testersN = [g \in TestReqs |-> -1]
    /\ total = [g \in TestReqs |-> 0]
    /\ wPc = [g \in TestReqs |-> <<>>]
    /\ localN = [g \in TestReqs |-> <<>>]
    /\ wRec = [g \in TestReqs |-> <<>>]
    /\ chanQ = [g \in TestReqs |-> <<>>]
    /\ recvd = [g \in TestReqs |-> <<>>]

\* atomic.Uint64.Add(1), line 466: the new value
Add(n) == n + 1

\* A record numbered by the count of its worker.
RequestNumLocal(globalN, k) == k

\* tRes.SetRequestNum(globalN), line 534
RequestNum(globalN, k) == globalN

\* A round robin that starts at the first template.
PickFromFirst(p, k, prev) ==
    LET n == Len(p.Requests) IN
    IF n = 1 THEN {p.Requests[1]}
    ELSE IF p.Choice = "roundrobin"
           THEN IF n = 0 THEN {} ELSE {p.Requests[((k - 1) % n) + 1]}
    ELSE IF p.Choice = "random" THEN {p.Requests[i] : i \in 1..n}
    ELSE {prev}

\* lines 468..477: the templates iteration k of a worker may pick, prev being
\* the template of its iteration before (the slice of Go counts from 0, the
\* sequence from 1).  No template stands for the panic of localN % 0 and of
\* IntN(0).
Pick(p, k, prev) ==
    LET n == Len(p.Requests) IN
    IF n = 1 THEN {p.Requests[1]}
    ELSE IF p.Choice = "roundrobin"
           THEN IF n = 0 THEN {} ELSE {p.Requests[(k % n) + 1]}
    ELSE IF p.Choice = "random" THEN {p.Requests[i] : i \in 1..n}
    ELSE {prev}

\* service.go, lines 39..40
spinupFactor == 4
spinupMaxDuration == 10 * Second

\* Duration.Nanoseconds of a duration in microseconds
Nanoseconds(d) == d * 1000

\* The integer division of Go: it panics on the divisor 0.
Quo(a, b) == IF b = 0 THEN failed ELSE ok(a \div b)

\* runTesters, lines 378..382: the spin-up of one worker, in nanoseconds, for
\* a duration d >= 0 in microseconds and n workers
Spinup(d, n) ==
    LET whole == Nanoseconds(d) \div spinupFactor
        capped == IF d > spinupFactor * spinupMaxDuration
                    THEN Nanoseconds(spinupMaxDuration) ELSE whole
    IN  Quo(capped, n)

\* rand.Int64N(n): it panics if n <= 0, else it draws from 0..n-1
Int64NPanics(n) == n <= 0

\* lines 378..386: the launcher panics on the division or on its first draw
SpinupPanics(d, n) == Spinup(d, n).err \/ Int64NPanics(Spinup(d, n).v)

\* lines 385..387: the latest instant, in nanoseconds after the launcher
\* began, that the draws of the n workers add up to
LatestStart(d, n) == n * (Spinup(d, n).v - 1)

\* runTesters, lines 366..386, of the run of request g: the goroutine is
\* scheduled, computes the spin-up, reads s.params.ParallelTesters for its
\* loop and draws the first delay.  Duration is in seconds here.
RunTestersBegin(g) ==
    /\ Alive
    /\ testersPc[g] = "run"
    /\ testersN[g] = -1
    /\ IF SpinupPanics(params.Duration * Second, params.ParallelTesters)
         THEN /\ crashed' = TRUE
              /\ UNCHANGED testersN
         ELSE /\ testersN' = [testersN EXCEPT ![g] = params.ParallelTesters]
              /\ UNCHANGED crashed
    /\ UNCHANGED <<total, wPc, localN, wRec, chanQ, recvd>>
    /\ UNCHANGED <<status, params, notCrashedU, fieldsU, chansU, tasksU, handlersU>>
    /\ UNCHANGED notRun

\* The admitted durations of SpecSpinup, in microseconds.
SpinupDurations == (0..MaxSpinupMicros) \cup {Millisecond, Second}

\* the launcher of a run of duration d with n workers
SpinupStart(d, n) ==
    /\ codec = noCodec
    /\ codec' = [op |-> "spinup", d |-> d, n |-> n,
                 panics |-> SpinupPanics(d, n),
                 latest |-> IF SpinupPanics(d, n) THEN 0 ELSE LatestStart(d, n)]
    /\ UNCHANGED notCodec

SpinupNext ==
    /\ codec = noCodec
    /\ \E d \in SpinupDurations, n \in 0..(2^8 - 1) : SpinupStart(d, n)

\* the workers runTesters of request g has launched
Spawned(g) == Len(wPc[g])

\* lines 385..400: the next worker is launched, with its localN and its r
RunTestersSpawn(g) ==
    /\ Alive
    /\ testersPc[g] = "run"
    /\ Spawned(g) < testersN[g]
    /\ Spawned(g) < NumWorkers
    /\ wPc' = [wPc EXCEPT ![g] = Append(@, "top")]
    /\ localN' = [localN EXCEPT ![g] = Append(@, 0)]
    /\ wRec' = [wRec EXCEPT ![g] = Append(@, noRecord)]
    /\ UNCHANGED <<testersN, total, chanQ, recvd>>
    /\ UNCHANGED testerVars
    /\ UNCHANGED notRun

\* lines 461..545: worker w of the run of request g is at the top of its
\* loop.  It returns when the context s.testCtx holds now is done; else it
\* takes its number, picks a template, sends the request and fills the
\* record, up to the send on s.results.
WorkerSelect(g, w) ==
    /\ Alive
    /\ w <= Spawned(g)
    /\ wPc[g][w] = "top"
    /\ testCtx # 0
    /\ IF ctxDone[testCtx]
         THEN /\ wPc' = [wPc EXCEPT ![g][w] = "exit"]
              /\ UNCHANGED <<total, localN, wRec, crashed>>
         ELSE /\ total[g] < MaxRequests
              /\ total' = [total EXCEPT ![g] = Add(total[g])]
              /\ localN' = [localN EXCEPT ![g][w] = @ + 1]
              /\ IF Pick(params, localN'[g][w], wRec[g][w].path) = {}
                   THEN /\ crashed' = TRUE
                        /\ UNCHANGED <<wPc, wRec>>
                   ELSE /\ \E r \in Pick(params, localN'[g][w], wRec[g][w].path) :
                              wRec' = [wRec EXCEPT ![g][w] =
                                         [run |-> g, w |-> w,
                                          num |-> RequestNum(total'[g], localN'[g][w]),
                                          k |-> localN'[g][w], path |-> r]]
                        /\ wPc' = [wPc EXCEPT ![g][w] = "push"]
                        /\ UNCHANGED crashed
    /\ UNCHANGED <<testersN, chanQ, recvd>>
    /\ UNCHANGED <<status, params, notCrashedU, fieldsU, chansU, tasksU, handlersU>>
    /\ UNCHANGED notRun

\* line 546: s.results <- tRes, on the channel s.results holds now.  The
\* send on a closed channel panics; the send on a full channel waits.
WorkerPush(g, w) ==
    /\ Alive
    /\ w <= Spawned(g)
    /\ wPc[g][w] = "push"
    /\ results # 0
    /\ IF resultsClosed[results]
         THEN /\ crashed' = TRUE
              /\ UNCHANGED <<wPc, chanQ>>
         ELSE /\ Len(chanQ[results]) < resultsCap[results]
              /\ chanQ' = [chanQ EXCEPT ![results] = Append(@, wRec[g][w])]
              /\ wPc' = [wPc EXCEPT ![g][w] = "top"]
              /\ UNCHANGED crashed
    /\ UNCHANGED <<testersN, total, localN, wRec, recvd>>
    /\ UNCHANGED <<status, params, notCrashedU, fieldsU, chansU, tasksU, handlersU>>
    /\ UNCHANGED notRun

\* lines 551..552: wg.Wait returns when every worker has returned, and
\* s.testersDone is closed
RunTestersWait(g) ==
    /\ Alive
    /\ testersPc[g] = "run"
    /\ testersN[g] >= 0
    /\ Spawned(g) = testersN[g]
    /\ \A w \in 1..Spawned(g) : wPc[g][w] = "exit"
    /\ testersPc' = [testersPc EXCEPT ![g] = "exit"]
    /\ IF testersDoneClosed[testersDone]
         THEN /\ crashed' = TRUE
              /\ UNCHANGED testersDoneClosed
         ELSE /\ testersDoneClosed' = [testersDoneClosed EXCEPT ![testersDone] = TRUE]
              /\ UNCHANGED crashed
    /\ UNCHANGED runVars
    /\ UNCHANGED <<status, params, notCrashedU, fieldsU, ctxDone, resultsClosed,
                   senderPc, idGenPc, supPc, supCtx, supTD, handlersU>>
    /\ UNCHANGED notRun

\* startSender, lines 313..336: the sender of the run of request g receives
\* the next record of its channel and posts it; c.Do returns within the
\* second of the client whether the Collector answers or not
SenderReceive(g) ==
    /\ Alive
    /\ senderPc[g] = "run"
    /\ chanQ[g] # <<>>
    /\ recvd' = [recvd EXCEPT ![g] = Append(@, Head(chanQ[g]))]
    /\ chanQ' = [chanQ EXCEPT ![g] = Tail(@)]
    /\ UNCHANGED <<testersN, total, wPc, localN, wRec>>
    /\ UNCHANGED testerVars
    /\ UNCHANGED notRun

\* line 313: the range ends when the channel is closed and empty
SenderRangeEnd(g) ==
    /\ Alive
    /\ senderPc[g] = "run"
    /\ ReceiveNotOk(chanQ[g], resultsClosed[g])
    /\ senderPc' = [senderPc EXCEPT ![g] = "exit"]
    /\ UNCHANGED runVars
    /\ UNCHANGED <<status, params, servicesU, fieldsU, chansU,
                   idGenPc, testersPc, supPc, supCtx, supTD, handlersU>>
    /\ UNCHANGED notRun

\* The bodies of SpecWorkers: workers that take two templates in turn, and
\* workers with one template.  The templates are ones http.NewRequest
\* accepts, so every iteration makes a record.
WorkerBodies ==
    { [kind |-> "ok", Duration |-> 1, Timeout |-> 1,
       ParallelTesters |-> NumWorkers, Choice |-> "roundrobin",
       Requests |-> rs] : rs \in {<<"/a", "/b">>, <<"/a">>} }

\* One run of the Tester, from its POST /test to the end of its sender.
WorkersNext ==
    \/ \E b \in WorkerBodies : HandleTestDecode(1, b)
    \/ HandleTestValidate(1)
    \/ HandleTestCAS(1)
    \/ HandleTestStart(1)
    \/ DeadlineExpires(1)
    \/ RunTestersBegin(1)
    \/ RunTestersSpawn(1)
    \/ \E w \in Workers : WorkerSelect(1, w)
    \/ \E w \in Workers : WorkerPush(1, w)
    \/ RunTestersWait(1)
    \/ SenderReceive(1)
    \/ SenderRangeEnd(1)
    \/ SupStart(1)
    \/ SupCtxDone(1)
    \/ SupClose(1)
    \/ SupStore(1)

\* A worker of the run of request g may leave its loop, or start one of the
\* first n iterations of the run.
MayIterate(g, n) == testCtx # 0 /\ (ctxDone[testCtx] \/ total[g] < n)

\* the run of the first POST /test has been started and has not ended
TestIsOn == status = statusTesting /\ supPc[1] # "none"

\* One run of the Tester and a POST /__service/terminate that arrives during
\* the test, with its shutdown.
TerminateNext ==
    \/ \E b \in WorkerBodies : HandleTestDecode(1, b)
    \/ HandleTestValidate(1)
    \/ HandleTestCAS(1)
    \/ HandleTestStart(1)
    \/ DeadlineExpires(1)
    \/ RunTestersBegin(1)
    \/ RunTestersSpawn(1)
    \/ \E w \in Workers : MayIterate(1, MaxRunRequests) /\ WorkerSelect(1, w)
    \/ \E w \in Workers : WorkerPush(1, w)
    \/ RunTestersWait(1)
    \/ SenderReceive(1)
    \/ SenderRangeEnd(1)
    \/ SupStart(1)
    \/ SupCtxDone(1)
    \/ SupClose(1)
    \/ SupStore(1)
    \/ (TestIsOn /\ HandleTerminate)
    \/ ShutdownCancel
    \/ ShutdownListeners
    \/ ShutdownReturns

\* The bodies of SpecSelection: one worker; no template, one or two; the
\* choice absent or one of the two that choice.UnmarshalJSON accepts.
SelectionBodies ==
    { [kind |-> "ok", Duration |-> 1, Timeout |-> 1, ParallelTesters |-> 1,
       Choice |-> c, Requests |-> rs] :
         c \in {"", "roundrobin", "random"},
         rs \in {<<>>, <<"/a">>, <<"/a", "/b">>} }

\* One run of the Tester for each admitted choice and list of templates.
SelectionNext ==
    \/ \E b \in SelectionBodies : HandleTestDecode(1, b)
    \/ HandleTestValidate(1)
    \/ HandleTestCAS(1)
    \/ HandleTestStart(1)
    \/ DeadlineExpires(1)
    \/ RunTestersBegin(1)
    \/ RunTestersSpawn(1)
    \/ \E w \in Workers : WorkerSelect(1, w)
    \/ \E w \in Workers : WorkerPush(1, w)
    \/ RunTestersWait(1)
    \/ SenderReceive(1)
    \/ SenderRangeEnd(1)
    \/ SupStart(1)
    \/ SupCtxDone(1)
    \/ SupClose(1)
    \/ SupStore(1)

\* The body of SpecTwoRuns: one worker with one template.
TwoRunsBodies ==
    { [kind |-> "ok", Duration |-> 1, Timeout |-> 1, ParallelTesters |-> 1,
       Choice |-> "roundrobin", Requests |-> <<"/a">>] }

\* The POST /test of the Tester, each with the run it starts.
TwoRunsNext ==
    \/ \E r \in TestReqs, b \in TwoRunsBodies : HandleTestDecode(r, b)
    \/ \E r \in TestReqs : HandleTestValidate(r)
    \/ \E r \in TestReqs : HandleTestCAS(r)
    \/ \E r \in TestReqs : HandleTestStart(r)
    \/ \E g \in TestReqs : DeadlineExpires(g)
    \/ \E g \in TestReqs : RunTestersBegin(g)
    \/ \E g \in TestReqs : RunTestersSpawn(g)
    \/ \E g \in TestReqs, w \in Workers :
          MayIterate(g, MaxRunRequests) /\ WorkerSelect(g, w)
    \/ \E g \in TestReqs, w \in Workers : WorkerPush(g, w)
    \/ \E g \in TestReqs : RunTestersWait(g)
    \/ \E g \in TestReqs : SenderReceive(g)
    \/ \E g \in TestReqs : SenderRangeEnd(g)
    \/ \E g \in TestReqs : SupStart(g)
    \/ \E g \in TestReqs : SupCtxDone(g)
    \/ \E g \in TestReqs : SupClose(g)
    \/ \E g \in TestReqs : SupStore(g)

Init ==
    /\ TesterInit /\ RunInit /\ MockInit /\ CollectorInit
    /\ ctl = noExchange /\ lastReq = noRequest /\ wire = noWire
    /\ codec = noCodec

SpecTester == Init /\ [][TesterNext]_vars

SpecTesterRun == Init /\ [][TesterRunNext]_vars

SpecCapacity == Init /\ [][CapacityNext]_vars

\* One run of two workers.
SpecWorkers == Init /\ [][WorkersNext]_vars

\* One run of one worker.
SpecSelection == Init /\ [][SelectionNext]_vars

\* One run and the shutdown of the Tester.
SpecTerminate == Init /\ [][TerminateNext]_vars

\* The runs of the POST /test that the Tester starts.
SpecTwoRuns == Init /\ [][TwoRunsNext]_vars

\* A goroutine that can take a step takes it, and the deadline of a context
\* passes.
SpecTwoRunsLive ==
    /\ Init /\ [][TwoRunsNext]_vars
    /\ \A g \in TestReqs :
          /\ WF_vars(DeadlineExpires(g))
          /\ WF_vars(RunTestersBegin(g))
          /\ WF_vars(RunTestersSpawn(g))
          /\ WF_vars(RunTestersWait(g))
          /\ WF_vars(SenderReceive(g))
          /\ WF_vars(SenderRangeEnd(g))
          /\ WF_vars(SupStart(g))
          /\ WF_vars(SupCtxDone(g))
          /\ WF_vars(SupClose(g))
          /\ WF_vars(SupStore(g))
          /\ \A w \in Workers :
                /\ WF_vars(MayIterate(g, MaxRunRequests) /\ WorkerSelect(g, w))
                /\ WF_vars(WorkerPush(g, w))

SpecMock == Init /\ [][MockNext]_vars

SpecCollector == Init /\ [][CollectorNext]_vars

\* The goroutine of shutdown(), the goroutine of Start that closes the channel
\* and processResults are scheduled whenever they can run; Shutdown returns
\* after its 30 s of grace at the latest.  Requests come as clients send them.
CollectorLiveNext ==
    \/ HandleDefaultRefused
    \/ (colPosts < MaxLivePosts /\ HandleDefaultArrive)
    \/ \E k \in 1..MaxLivePosts : HandleDefaultSelect(k)
    \/ WriterReceive
    \/ WriterTick
    \/ WriterClose
    \/ ColHandleTerminate
    \/ ColShutdownListeners
    \/ ColShutdownReturns
    \/ ColCloseResults

\* The three services with their shutdown.  They are three processes that
\* share no state: a behaviour of SpecShutdown runs one of them.
TesterOnly == MockInit /\ CollectorInit
MockOnly == TesterInit /\ CollectorInit
CollectorOnly == TesterInit /\ MockInit

ShutdownNext ==
    \/ \E r \in TestReqs, b \in TestBodies : TesterOnly /\ HandleTestDecode(r, b)
    \/ \E r \in TestReqs : TesterOnly /\ HandleTestValidate(r)
    \/ \E r \in TestReqs : TesterOnly /\ HandleTestCAS(r)
    \/ \E r \in TestReqs : TesterOnly /\ HandleTestStart(r)
    \/ \E g \in TestReqs : TesterOnly /\ DeadlineExpires(g)
    \/ \E g \in TestReqs : TesterOnly /\ TestersExit(g)
    \/ \E g \in TestReqs : TesterOnly /\ SenderExit(g)
    \/ \E g \in TestReqs : TesterOnly /\ SupStart(g)
    \/ \E g \in TestReqs : TesterOnly /\ SupCtxDone(g)
    \/ \E g \in TestReqs : TesterOnly /\ SupClose(g)
    \/ \E g \in TestReqs : TesterOnly /\ SupStore(g)
    \/ TesterOnly /\ HandleTerminate
    \/ TesterOnly /\ ShutdownCancel
    \/ TesterOnly /\ ShutdownListeners
    \/ TesterOnly /\ ShutdownReturns
    \/ \E r \in MockReqs, b \in MockBodies : MockOnly /\ HandleMockDecode(r, b)
    \/ \E r \in MockReqs : MockOnly /\ HandleMockValidate(r)
    \/ \E r \in MockReqs : MockOnly /\ HandleMockCAS(r)
    \/ \E r \in MockReqs : MockOnly /\ HandleMockStart(r)
    \/ \E r \in MockReqs : MockOnly /\ DeadlineSleep(r)
    \/ \E r \in MockReqs : MockOnly /\ DeadlineStore(r)
    \/ MockOnly /\ HandleDefaultRefuse
    \/ MockOnly /\ HandleDefaultServe
    \/ MockOnly /\ Tick
    \/ MockOnly /\ MockHandleTerminate
    \/ MockOnly /\ MockShutdownListeners
    \/ MockOnly /\ MockShutdownReturns
    \/ CollectorOnly /\ HandleDefaultRefused
    \/ CollectorOnly /\ colPosts < MaxLivePosts /\ HandleDefaultArrive
    \/ \E k \in 1..MaxLivePosts : CollectorOnly /\ HandleDefaultSelect(k)
    \/ CollectorOnly /\ WriterReceive
    \/ CollectorOnly /\ WriterTick
    \/ CollectorOnly /\ WriterClose
    \/ CollectorOnly /\ ColHandleTerminate
    \/ CollectorOnly /\ ColShutdownListeners
    \/ CollectorOnly /\ ColShutdownReturns
    \/ CollectorOnly /\ ColCloseResults

\* The goroutines of shutdown() are scheduled whenever they can run, and
\* Shutdown returns after its 30 s of grace at the latest.
SpecShutdown ==
    /\ Init /\ [][ShutdownNext]_vars
    /\ WF_vars(ShutdownCancel)
    /\ WF_vars(ShutdownListeners)
    /\ WF_vars(ShutdownReturns)
    /\ WF_vars(MockShutdownListeners)
    /\ WF_vars(MockShutdownReturns)
    /\ WF_vars(ColShutdownListeners)
    /\ WF_vars(ColShutdownReturns)
    /\ WF_vars(ColCloseResults)
    /\ WF_vars(WriterReceive)
    /\ WF_vars(WriterClose)

\* The control plane of the three services, each next to a run of its own.
ControlNext ==
    \/ \E r \in 1..NumRunReq, b \in RunBodies :
          TesterOnly /\ HandleTestDecode(r, b)
    \/ \E r \in TestReqs : TesterOnly /\ HandleTestValidate(r)
    \/ \E r \in TestReqs : TesterOnly /\ HandleTestCAS(r)
    \/ \E r \in TestReqs : TesterOnly /\ HandleTestStart(r)
    \/ \E g \in TestReqs : TesterOnly /\ DeadlineExpires(g)
    \/ \E g \in TestReqs : TesterOnly /\ TestersExit(g)
    \/ \E g \in TestReqs : TesterOnly /\ SenderExit(g)
    \/ \E g \in TestReqs : TesterOnly /\ SupStart(g)
    \/ \E g \in TestReqs : TesterOnly /\ SupCtxDone(g)
    \/ \E g \in TestReqs : TesterOnly /\ SupClose(g)
    \/ \E g \in TestReqs : TesterOnly /\ SupStore(g)
    \/ \E r \in 1..NumRunReq, b \in MockBodies :
          MockOnly /\ HandleMockDecode(r, b)
    \/ \E r \in MockReqs : MockOnly /\ HandleMockValidate(r)
    \/ \E r \in MockReqs : MockOnly /\ HandleMockCAS(r)
    \/ \E r \in MockReqs : MockOnly /\ HandleMockStart(r)
    \/ \E r \in MockReqs : MockOnly /\ DeadlineSleep(r)
    \/ \E r \in MockReqs : MockOnly /\ DeadlineStore(r)
    \/ MockOnly /\ Tick
    \/ \E svc \in Services, method \in Methods, path \in Paths :
          ControlRequest(svc, method, path)

SpecControl == Init /\ [][ControlNext]_vars

\* A run of the Tester with the requests of its workers.
WorkerNext ==
    \/ \E r \in 1..NumRunReq, b \in RunBodies : HandleTestDecode(r, b)
    \/ \E r \in TestReqs : HandleTestValidate(r)
    \/ \E r \in TestReqs : HandleTestCAS(r)
    \/ \E r \in TestReqs : HandleTestStart(r)
    \/ \E g \in TestReqs : DeadlineExpires(g)
    \/ \E g \in TestReqs : TestersExit(g)
    \/ \E g \in TestReqs : SenderExit(g)
    \/ \E g \in TestReqs : SupStart(g)
    \/ \E g \in TestReqs : SupCtxDone(g)
    \/ \E g \in TestReqs : SupClose(g)
    \/ \E g \in TestReqs : SupStore(g)
    \/ \E g \in TestReqs, t \in Targets : WorkerRequest(g, t)

SpecWorker == Init /\ [][WorkerNext]_vars

SpecWire == Init /\ [][WireNext]_vars

SpecParams == Init /\ [][ParamsNext]_vars

SpecPace == Init /\ [][PaceNext]_vars

SpecPacing == Init /\ [][PacingNext]_vars

SpecSpinup == Init /\ [][SpinupNext]_vars

SpecDuration == Init /\ [][DurationNext]_vars

SpecHeader == Init /\ [][HeaderNext]_vars

SpecCollectorLive ==
    /\ Init /\ [][CollectorLiveNext]_vars
    /\ WF_vars(ColShutdownListeners)
    /\ WF_vars(ColShutdownReturns)
    /\ WF_vars(ColCloseResults)
    /\ WF_vars(WriterReceive)
    /\ WF_vars(WriterClose)

(***************************************************************************)
(*                        CLAIMS ABOUT THE TESTER                          *)
(***************************************************************************)
ValidTestBody(b) == b.kind = "ok" /\ b.Duration >= 0 /\ b.Timeout >= 0
Arrived(r) == pc[r] # "idle"
Answered(r) == pc[r] = "done"

\* C1 (as stated): of the POST /test requests with valid configurations that
\* arrive in the same period of status ready, no two are answered 200 and
\* every one is answered 200 or 503; a valid POST /test that arrives while the
\* status is testing is answered 503.  Only behaviours in which every request
\* carries a valid configuration are considered.
C1_ArrivalDecides ==
    (\A q \in TestReqs : Arrived(q) => ValidTestBody(body[q])) =>
        /\ \A r1, r2 \in TestReqs :
              /\ r1 # r2 /\ Arrived(r1) /\ Arrived(r2)
              /\ arr[r1].st = statusReady /\ arr[r2].st = statusReady
              /\ arr[r1].adm = arr[r2].adm
              => ~(resp[r1] = StatusOK /\ resp[r2] = StatusOK)
        /\ \A r \in TestReqs :
              Answered(r) => resp[r] \in {StatusOK, StatusServiceUnavailable}
        /\ \A r \in TestReqs :
              Answered(r) /\ arr[r].st = statusTesting
              => resp[r] = StatusServiceUnavailable

\* C1 (amended): a POST /test that reaches the compare-and-swap is answered
\* 200 exactly when the compare-and-swap finds the status ready, and then the
\* status is testing; it is answered 503 when the compare-and-swap finds any
\* other status.  So of the requests whose compare-and-swap runs between two
\* resets of the status exactly one is answered 200.
C1_CASDecides ==
    /\ [](\A r \in TestReqs :
            /\ resp[r] = StatusOK => cas[r] = "won"
            /\ cas[r] = "lost" => resp[r] = StatusServiceUnavailable
            /\ cas[r] = "won" /\ Answered(r) => resp[r] = StatusOK)
    /\ [][\A r \in TestReqs :
            cas'[r] # cas[r] =>
                /\ (cas'[r] = "won") <=> (status = statusReady)
                /\ cas'[r] = "won" => status' = statusTesting
                /\ cas'[r] = "lost" => status' = status]_vars

\* Two requests were answered, one 200 and one 503.
C1_Witness ==
    \E r1, r2 \in TestReqs :
        /\ Answered(r1) /\ resp[r1] = StatusOK
        /\ Answered(r2) /\ resp[r2] = StatusServiceUnavailable

\* C2: the handler of a POST /test that was answered 503 changes nothing
\* afterwards: testCtx, testCancel, startedAt, runningUntil, the ids, results
\* and testersDone channels stay as they are and no sender, ID generator,
\* workers or supervisor is started.
C2_EarlyReturn ==
    [][\A r \in TestReqs :
         resp[r] = StatusServiceUnavailable /\ pc'[r] # pc[r] =>
            UNCHANGED <<testCtx, testCancel, startedAt, runningUntil,
                        ids, results, testersDone, idGenDone,
                        senderPc, idGenPc, testersPc, supPc>>]_vars

\* C3: the status only ever changes from ready to testing, from testing to
\* stopping and from stopping to ready.
C3_StatusCycle ==
    [][status' # status =>
         <<status, status'>> \in { <<statusReady, statusTesting>>,
                                   <<statusTesting, statusStopping>>,
                                   <<statusStopping, statusReady>> }]_vars

\* C4: a POST /test whose body fails JSON parsing or whose duration is
\* negative is answered 400 and never takes part in the admission.
FailsParsingOrValidation(b) == b.kind # "ok" \/ b.Duration < 0
C4_Rejected400 ==
    \A r \in TestReqs :
        Arrived(r) /\ FailsParsingOrValidation(body[r]) =>
            /\ cas[r] = "none"
            /\ Answered(r) => resp[r] = StatusBadRequest

\* C5: a POST /test whose duration or timeout is negative is answered 400 and
\* is never admitted.
C5_NegativeRejected ==
    \A r \in TestReqs :
        Answered(r) /\ body[r].kind = "ok"
        /\ (body[r].Duration < 0 \/ body[r].Timeout < 0) =>
            resp[r] = StatusBadRequest /\ cas[r] # "won"

(***************************************************************************)
(*                         CLAIMS ABOUT THE MOCK                           *)
(***************************************************************************)
\* C6: a POST /__mock is answered 200 only when its compare-and-swap won; one
\* that lost is answered 503 and has no deadline task; only an admitted
\* request has a deadline task; and the deadline task of an admitted request
\* stores ready no earlier than the duration that request configured after
\* its admission.
C6_AdmissionAndExpiry ==
    \A r \in MockReqs :
        /\ mresp[r] = StatusOK => mcas[r] = "won"
        /\ mcas[r] = "lost" => mresp[r] = StatusServiceUnavailable /\ dlPc[r] = "none"
        /\ dlPc[r] # "none" => mcas[r] = "won"
        /\ dlReset[r] # -1 => dlReset[r] >= admitAt[r] + mbody[r].Duration

\* C7: a request to a non-control path is answered 503 when the status read
\* at handler entry is not running and 200 when it is running.
C7_TrafficGating ==
    traffic.code # 0 =>
        /\ traffic.seen # statusRunning => traffic.code = StatusServiceUnavailable
        /\ traffic.seen = statusRunning => traffic.code = StatusOK
        /\ traffic.code = StatusOK <=>
              \E i \in 1..Len(traffic.events) :
                  traffic.events[i] = [op |-> "header", d |-> StatusOK]

\* A request was served while running, after one admission.
C7_Witness ==
    /\ traffic.seen = statusRunning /\ traffic.code = StatusOK
    /\ \E r \in MockReqs : mcas[r] = "won"

RECURSIVE SumOf(_, _, _, _)
\* the sum of the d of the events of kind op among ev[from..to]
SumOf(ev, op, from, to) ==
    IF from > to THEN 0
    ELSE (IF ev[from].op = op THEN ev[from].d ELSE 0) + SumOf(ev, op, from + 1, to)

Max(a, b) == IF a >= b THEN a ELSE b

ValidLatency(p) ==
    /\ 0 <= p.HMin /\ p.HMin <= p.HMax
    /\ 0 <= p.RMin /\ p.RMin <= p.RMax

\* C8: for a parameter set that passes validation and every drawn pair, the
\* handler sleeps headDelay, writes the 200 status, sleeps
\* max(0, respDelay - headDelay) and then writes one byte when
\* respDelay > headDelay and nothing otherwise: max(headDelay, respDelay) in all.
C8_LatencyInjection ==
    traffic.code = StatusOK /\ ValidLatency(traffic.p) =>
        LET ev == traffic.events
            h == traffic.headDelay
            d == traffic.respDelay
            k == CHOOSE i \in 1..Len(ev) : ev[i].op = "header"
        IN  /\ Cardinality({i \in 1..Len(ev) : ev[i].op = "header"}) = 1
            /\ ev[k].d = StatusOK
            /\ SumOf(ev, "sleep", 1, k - 1) = h
            /\ SumOf(ev, "sleep", k + 1, Len(ev)) = Max(0, d - h)
            /\ SumOf(ev, "write", 1, k) = 0
            /\ SumOf(ev, "write", k + 1, Len(ev)) = (IF d > h THEN 1 ELSE 0)
            /\ d > h => ev[Len(ev)].op = "write"
            /\ SumOf(ev, "sleep", 1, Len(ev)) = Max(h, d)

\* A request was served with 0 < headDelay < respDelay.
C8_Witness ==
    /\ traffic.code = StatusOK /\ ValidLatency(traffic.p)
    /\ 0 < traffic.headDelay /\ traffic.headDelay < traffic.respDelay
    /\ Len(traffic.events) = 4

\* C9 (as stated): for a parameter set that passes validation the delays that
\* can be drawn are exactly the values of the closed intervals
\* [headerLatency.min, headerLatency.max] and [duration.min, duration.max].
C9_ClosedInterval ==
    mockStatus = statusRunning /\ ValidLatency(mockParams) =>
        /\ DrawSet(mockParams.HMin, mockParams.HMax) = mockParams.HMin..mockParams.HMax
        /\ DrawSet(mockParams.RMin, mockParams.RMax) = mockParams.RMin..mockParams.RMax

HalfOpen(min, max) == IF min < max THEN min..(max - 1) ELSE {min}

\* C9 (amended): a drawn delay never lies outside the closed interval; the
\* values that can be drawn are those of the half-open interval [min, max)
\* when min < max, and min alone when min = max: max itself is never drawn
\* unless min = max.
C9_HalfOpenInterval ==
    /\ mockStatus = statusRunning /\ ValidLatency(mockParams) =>
        /\ DrawSet(mockParams.HMin, mockParams.HMax)
              = HalfOpen(mockParams.HMin, mockParams.HMax)
        /\ DrawSet(mockParams.RMin, mockParams.RMax)
              = HalfOpen(mockParams.RMin, mockParams.RMax)
    /\ traffic.code = StatusOK /\ ValidLatency(traffic.p) =>
        /\ traffic.headDelay \in traffic.p.HMin..traffic.p.HMax
        /\ traffic.respDelay \in traffic.p.RMin..traffic.p.RMax
        /\ traffic.p.HMin < traffic.p.HMax => traffic.headDelay < traffic.p.HMax
        /\ traffic.p.RMin < traffic.p.RMax => traffic.respDelay < traffic.p.RMax

\* A request was served with both delays at the top of what can be drawn.
C9_Witness ==
    /\ traffic.code = StatusOK /\ ValidLatency(traffic.p)
    /\ traffic.p.HMin < traffic.p.HMax /\ traffic.headDelay = traffic.p.HMax - 1
    /\ traffic.p.RMin < traffic.p.RMax /\ traffic.respDelay = traffic.p.RMax - 1

(***************************************************************************)
(*                       Collector: the claims                             *)
(***************************************************************************)
\* the channel never holds more than its capacity
C10_Occupancy == Len(colResults) <= BufferSize

\* a handler at the select can always take its step, whatever the writer does
C10_NeverWaits ==
    \A k \in colSel : ColAlive => ENABLED HandleDefaultSelect(k)

\* the records accepted beyond those the writer has received are at most
\* BufferSize: with no writer progress at most BufferSize are accepted
C10_Burst == colAccepted <= BufferSize + Len(colRows)

\* the handler of record k leaves the select: the record was enqueued when the
\* channel held fewer than BufferSize records, and was dropped otherwise
C10_SelectOutcome ==
    [][\A k \in 1..MaxPosts :
         (k \in colSel /\ k \notin colSel') =>
            IF Len(colResults) < BufferSize
              THEN /\ colResults' = Append(colResults, k)
                   /\ colAccepted' = colAccepted + 1
                   /\ colDropped' = colDropped
              ELSE /\ colResults' = colResults
                   /\ colAccepted' = colAccepted
                   /\ colDropped' = colDropped + 1]_vars

\* C10: collector ingestion never blocks.  A form encoded POST / enqueues its
\* record when the results channel holds fewer than 10 records and otherwise
\* drops it and returns; the handler never waits for the writer, the
\* occupancy of the channel never exceeds 10, and with no writer progress at
\* most 10 records of a burst are accepted.
C10_NonBlockingIngestion ==
    /\ [](C10_Occupancy /\ C10_NeverWaits /\ C10_Burst)
    /\ C10_SelectOutcome

IsPrefix(p, q) ==
    /\ Len(p) <= Len(q)
    /\ \A i \in 1..Len(p) : p[i] = q[i]

C12_Order ==
    /\ colShutPc # "none" => colShutdownOnce
    /\ ~colServing => colShutPc \in {"wait", "exit"}
    /\ colCtxDone => colShutPc = "exit" /\ ~colServing
    /\ colClosed => colCtxDone
    /\ colFileClosed => colClosed /\ colResults = <<>>
    /\ colTerminated => colFileClosed

\* C12: after POST /__service/terminate the graceful shutdown of the HTTP
\* server is initiated, then the write context is cancelled, then the results
\* channel is closed, then the writer drains and closes the file, then
\* terminated is closed and Start returns; each of them eventually happens and
\* Start never returns before the file is closed.
C12_ShutdownProtocol ==
    /\ []C12_Order
    /\ colShutdownOnce ~> ~colServing
    /\ colShutdownOnce ~> colCtxDone
    /\ colShutdownOnce ~> colClosed
    /\ colShutdownOnce ~> colFileClosed
    /\ colShutdownOnce ~> colTerminated

\* The sequence has run to its end with records written on the way.
C12_Witness ==
    /\ colShutdownOnce /\ colShutPc = "exit" /\ colCtxDone /\ colClosed
    /\ colFileClosed /\ colTerminated
    /\ colRows # <<>>

\* the function of shutdownOnce ran at most once and terminated was closed at
\* most once, in each service
C13_Once ==
    /\ shutCount.runs <= 1 /\ shutCount.closes <= 1
    /\ shutdownOnce <=> shutCount.runs = 1
    /\ terminated <=> shutCount.closes = 1
    /\ mockShutCount.runs <= 1 /\ mockShutCount.closes <= 1
    /\ mockShutdownOnce <=> mockShutCount.runs = 1
    /\ mockTerminated <=> mockShutCount.closes = 1
    /\ colShutCount.runs <= 1 /\ colShutCount.closes <= 1
    /\ colShutdownOnce <=> colShutCount.runs = 1
    /\ colTerminated <=> colShutCount.closes = 1

\* Start of the Mock and of the Collector returns after a terminate
C13_MockCollectorReturn ==
    /\ mockShutdownOnce ~> mockTerminated
    /\ colShutdownOnce ~> colTerminated

\* Start of the Tester returns after a terminate
C13_TesterReturn == shutdownOnce ~> terminated

\* the Tester is not killed by a panic between a terminate and the return of
\* Start
C13_TesterNotKilled == shutdownOnce /\ crashed => terminated

\* C13: in every service, for any number of POST /__service/terminate the
\* shutdown sequence runs exactly once, terminated is closed exactly once and
\* Start eventually returns.
C13_OneShotShutdown ==
    /\ []C13_Once
    /\ []C13_TesterNotKilled
    /\ C13_MockCollectorReturn
    /\ C13_TesterReturn

\* the answer of ServeMux to a subtree path without its trailing slash, which
\* a client follows to the subtree
RedirectedToSubtree ==
    ctl.code = StatusMovedPermanently /\ ctl.location = ctl.path \o "/"

ActiveText(svc) == IF svc = "tester" THEN "testing" ELSE "running"

\* C14: each of the three services answers GET /__service with 200 and a
\* status of ready, its active state or stopping, with the duration field
\* present only in the active state (a GET that ServeMux redirects from
\* /__service to /__service/ counts as answered by the answer to the latter).
C14_ServiceStatus ==
    ctl.svc \in Services /\ ctl.method = "GET" /\ ctl.path \in StatusPaths =>
        \/ RedirectedToSubtree
        \/ /\ ctl.code = StatusOK
           /\ ctl.status \in {"ready", ActiveText(ctl.svc), "stopping"}
           /\ ctl.duration => ctl.status = ActiveText(ctl.svc)

\* C14 for the Tester and the Mock alone
C14_TesterMockStatus == ctl.svc \in {"tester", "mock"} => C14_ServiceStatus

MethodNotAllowed(allow) ==
    ctl.code = StatusMethodNotAllowed /\ ctl.allow = allow

\* the answers to the control endpoints that every service has, and to the
\* status endpoint of the Tester and of the Mock
C15_Answers ==
    /\ ctl.svc = "tester" /\ ctl.path = "/test" /\ ctl.method # "POST"
          => MethodNotAllowed("POST")
    /\ ctl.svc = "mock" /\ ctl.path = "/__mock" /\ ctl.method # "POST"
          => MethodNotAllowed("POST")
    /\ ctl.svc \in {"tester", "mock"} /\ ctl.path \in StatusPaths
          /\ ctl.method # "GET"
          => RedirectedToSubtree \/ MethodNotAllowed("GET")
    /\ ctl.svc \in Services /\ ctl.path \in TerminatePaths
          /\ ctl.method # "POST"
          => MethodNotAllowed("POST")
    /\ ctl.svc \in Services /\ ctl.path = "/__service/other"
          => ctl.code = StatusNotFound

\* the status endpoint of the Collector
C15_CollectorStatusPath ==
    ctl.svc = "collector" /\ ctl.path \in StatusPaths /\ ctl.method # "GET"
          => RedirectedToSubtree \/ MethodNotAllowed("GET")

\* a request answered 405 or 404 leaves the state of every service as it was
C15_NoStateChange ==
    [][ctl' # ctl => UNCHANGED <<testerVars, mockVars, collectorVars>>]_vars

\* C15: on /test, /__mock, /__service and /__service/terminate a request with
\* an unsupported method is answered 405 with an Allow header that names the
\* supported method, and changes no state of the service; any other path
\* under /__service/ is answered 404.
C15_MethodAndPathErrors ==
    /\ [](C15_Answers /\ C15_CollectorStatusPath)
    /\ C15_NoStateChange

(***************************************************************************)
(*                         Worker: the claims                              *)
(***************************************************************************)
Requested == lastReq.target.kind # "none"

Outcome == ClientDo(lastReq.target, lastReq.timeout)

\* the two outcomes that the code marks: deadline exceeded and a response
C16_MarkedOutcomes ==
    Requested =>
        /\ Outcome.err = "deadline" =>
              /\ lastReq.record[trTimedOut] = "true"
              /\ lastReq.record[trResponseCode] = ""
        /\ Outcome.err = "" =>
              /\ lastReq.record[trTimedOut] = "false"
              /\ lastReq.record[trResponseCode] = Itoa(Outcome.resp)

\* C16: a request that fails with deadline exceeded has TimedOut "true" and
\* an empty RespCode, one that fails with another transport error has
\* TimedOut "false" and an empty RespCode, one that got a response has
\* TimedOut "false" and the decimal status code; TimedOut is always "true" or
\* "false".
C16_OutcomeClassification ==
    /\ C16_MarkedOutcomes
    /\ Requested =>
        /\ Outcome.err = "other" =>
              /\ lastReq.record[trTimedOut] = "false"
              /\ lastReq.record[trResponseCode] = ""
        /\ lastReq.record[trTimedOut] \in {"true", "false"}

Min(a, b) == IF a <= b THEN a ELSE b

\* C17: the timeout and RoundDuration cover the round trip up to the end of
\* the response: when the target sends the headers before the timeout and
\* completes the body only after it, the record has TimedOut "true" and an
\* empty RespCode, and RoundDuration is never shorter than the time until the
\* body was received or the timeout fired.
C17_WholeRoundTrip ==
    Requested /\ lastReq.target.kind = "served" /\ lastReq.timeout > 0 =>
        /\ lastReq.target.head < lastReq.timeout
             /\ lastReq.target.done > lastReq.timeout =>
                /\ lastReq.record[trTimedOut] = "true"
                /\ lastReq.record[trResponseCode] = ""
        /\ lastReq.elapsed >= Min(lastReq.target.done, lastReq.timeout)
        /\ lastReq.record[trRoundDuration] = DurationString(lastReq.elapsed)

(***************************************************************************)
(*                      Conversions: the claims                            *)
(***************************************************************************)
\* vs restricted to the nine keys
Restricted(vs) == [n \in DOMAIN vs \cap AttrKeys |-> vs[n]]

\* the nine columns in the order the specification declares
DeclaredOrder == <<"ReqTime", "TestName", "ReqID", "ReqNum", "ReqMethod",
                   "ReqPath", "RespCode", "RoundDuration", "TimedOut">>

\* NewTestResult(URLValues(r)) = r, and Slice lists the columns in order
C18_EncodeAndSlice ==
    /\ wire.op = "encode" =>
          /\ wire.back = wire.r
          /\ \A i \in 1..Len(DeclaredOrder) :
                wire.slice[i] = wire.vs[DeclaredOrder[i]][1]
          /\ Len(wire.slice) = Len(DeclaredOrder)
    /\ wire.op = "decode" =>
          /\ Len(wire.slice) = Len(DeclaredOrder)
          /\ \A i \in 1..Len(DeclaredOrder) : wire.slice[i] = wire.r[i]

\* C18 (as stated): URLValues(NewTestResult(vs)) is vs restricted to the nine
\* keys for every form value set vs; NewTestResult(URLValues(r)) = r for
\* every record r; Slice lists the nine values in the declared order.
C18_WireRoundTrip ==
    /\ C18_EncodeAndSlice
    /\ wire.op = "decode" => wire.back = Restricted(wire.vs)

SingleValued(vs) == \A n \in AttrKeys : n \in DOMAIN vs /\ Len(vs[n]) = 1

\* C18 (amended): URLValues(NewTestResult(vs)) gives each of the nine keys
\* exactly one value, the first value vs has for the key and "" when vs has
\* none; it is vs restricted to the nine keys exactly when vs gives each of
\* the nine keys exactly one value.  NewTestResult(URLValues(r)) = r and the
\* order of Slice are as stated.
C18_FirstValueRoundTrip ==
    /\ C18_EncodeAndSlice
    /\ wire.op = "decode" =>
          /\ DOMAIN wire.back = AttrKeys
          /\ \A n \in AttrKeys :
                wire.back[n] =
                   IF n \in DOMAIN wire.vs /\ wire.vs[n] # <<>>
                     THEN <<Head(wire.vs[n])>> ELSE <<"">>
          /\ wire.back = Restricted(wire.vs) <=> SingleValued(wire.vs)

\* A form value set with a key of two values and a tenth key was decoded.
C18_Witness ==
    /\ wire.op = "decode"
    /\ "Other" \in DOMAIN wire.vs
    /\ "RespCode" \in DOMAIN wire.vs /\ Len(wire.vs["RespCode"]) = 2
    /\ wire.r[trResponseCode] = "a"


(***************************************************************************)
(* C19: TestParams JSON round trip                                         *)
(***************************************************************************)
\* The values a loaded configuration can hold and the claim speaks of: no
\* negative duration, durations and timeouts of whole milliseconds, schema,
\* choice and methods of their sets, header keys in their canonical form
\* with at least one value each.
ValidParams(p) ==
    /\ p.Duration >= 0 /\ p.Duration % Millisecond = 0
    /\ p.Timeout >= 0 /\ p.Timeout % Millisecond = 0
    /\ p.Choice \in Choices /\ p.ReqSchema \in Schemas
    /\ p.ReqVersion # <<0, 0>> /\ p.ReqIDHeader # <<>>
    /\ \A i \in 1..Len(p.Requests) :
          /\ p.Requests[i].Method \in validMethods
          /\ \A k \in DOMAIN p.Requests[i].Header :
                /\ CanonicalMIMEHeaderKey(k) = k
                /\ p.Requests[i].Header[k] # <<>>

\* the text of the value was written, was parsed, and gave the value back
RoundTrips ==
    /\ ~codec.text.err
    /\ ~codec.back.err
    /\ codec.back.v = codec.p

\* C19 (supporting): a valid TestParams value makes the round trip exactly
\* when neither its duration nor its timeout is zero; in particular every
\* value with multi-valued headers and no zero span does.
C19_RoundTripButZero ==
    (codec.op = "params" /\ ValidParams(codec.p)) =>
        (RoundTrips <=> (codec.p.Duration # 0 /\ codec.p.Timeout # 0))

\* C19: for every valid TestParams value p with defaults applied, a zero
\* duration or timeout and multi-valued headers included, parsing the JSON
\* serialization of p succeeds and yields a value equal to p.
C19_ParamsRoundTrip ==
    (codec.op = "params" /\ ValidParams(codec.p)) => RoundTrips


(***************************************************************************)
(* C20: pace parsing to requests per minute                                *)
(***************************************************************************)
\* the text parsed without an error to the rate v
ParsesTo(v) == ~codec.val.err /\ codec.val.v = v

\* v is x / 60 rounded to nearest
NearestSixtieth(v, x) == 60 * v - 30 <= x /\ x <= 60 * v + 30

\* the rate the text "<x><unit>" stands for is the rate it parsed to
RateAsWritten ==
    IF codec.unit = <<"r", "p", "m">> THEN ParsesTo(codec.x)
    ELSE IF codec.unit = <<"r", "p", "s">> THEN ParsesTo(codec.x * 60)
    ELSE ~codec.val.err /\ NearestSixtieth(codec.val.v, codec.x)

\* the rate of the text fits the unsigned 16-bit pace
RateFits ==
    codec.unit = <<"r", "p", "s">> => codec.x * 60 < 2^PaceBits

\* C20 (supporting): the texts whose rate fits 16 bits parse as claimed, and
\* so do the four examples.
C20_FittingRates ==
    /\ (codec.op = "pace" /\ codec.x < 2^PaceBits /\ RateFits) => RateAsWritten
    /\ (codec.op = "pace" /\ <<codec.x, codec.unit>> \in
           {<<60, <<"r", "p", "m">>>>, <<1, <<"r", "p", "s">>>>,
            <<3600, <<"r", "p", "h">>>>}) => ParsesTo(60)
    /\ (codec.op = "pace" /\ codec.x = 120 /\ codec.unit = <<"r", "p", "h">>)
          => ParsesTo(2)

\* C20: for every unsigned 16-bit X, "Xrpm" parses to X, "Xrps" to X*60 and
\* "Xrph" to X/60 rounded to nearest; a text whose rate does not fit the
\* unsigned 16-bit pace is refused, not parsed to a different rate.
C20_PaceParsing ==
    (codec.op = "pace" /\ codec.x < 2^PaceBits) =>
        IF RateFits THEN RateAsWritten ELSE codec.val.err


(***************************************************************************)
(* C21: duration parsing                                                   *)
(***************************************************************************)
\* the milliseconds of one unit of the three units of the specification
MillisOf(u) ==
    IF u = <<"m", "s">> THEN 1 ELSE IF u = <<"s">> THEN 1000 ELSE 60000

SpecUnits == {<<"m", "s">>, <<"s">>, <<"m">>}

\* the text was accepted as the span it reads as
AcceptedAsWritten ==
    /\ ~codec.val.err
    /\ codec.val.v = codec.x * MillisOf(codec.unit) * Millisecond

\* C21 (supporting): a text of one of the three units is accepted as the span
\* it reads as, and of the other texts exactly those in microseconds are
\* accepted.
C21_ButMicroseconds ==
    codec.op = "duration" =>
        /\ codec.unit \in SpecUnits => AcceptedAsWritten
        /\ codec.unit \notin SpecUnits =>
              (codec.val.err <=> codec.unit # <<"u", "s">>)

\* C21: a JSON string is accepted exactly when it is a number followed by ms,
\* s or m ("5m" is 300000 ms, "250ms" 250 ms, "5s" 5000 ms); every string
\* with another unit or with no unit is rejected.
C21_DurationParsing ==
    codec.op = "duration" =>
        IF codec.unit \in SpecUnits THEN AcceptedAsWritten ELSE codec.val.err


(***************************************************************************)
(* C22: request header parsing                                             *)
(***************************************************************************)
IsStringArray(v) ==
    v.t = "array" /\ \A i \in 1..Len(v.a) : v.a[i].t = "string"

\* the values the JSON value v gives a header: the string, the strings of
\* the array in their order
ValuesOf(v) ==
    IF v.t = "string" THEN <<v.s>> ELSE [i \in 1..Len(v.a) |-> v.a[i].s]

\* the header of the request of the loaded configuration
ParsedHeader == codec.val.v.Requests[1].Header

\* every key has the values its JSON value gives it, in their order
HeaderAsWritten ==
    /\ ~codec.val.err
    /\ \A k \in DOMAIN codec.h :
          IF ValuesOf(codec.h[k]) = <<>> THEN k \notin DOMAIN ParsedHeader
          ELSE k \in DOMAIN ParsedHeader
               /\ ParsedHeader[k] = ValuesOf(codec.h[k])

\* C22 (supporting): strings and arrays of strings give their values, an
\* array with an element that is no string fails the configuration, and a
\* value of another type is passed over without an error.
C22_ButOtherTypes ==
    codec.op = "header" =>
        /\ (\A k \in DOMAIN codec.h :
               codec.h[k].t = "string" \/ IsStringArray(codec.h[k]))
              => HeaderAsWritten
        /\ codec.val.err <=>
              \E k \in DOMAIN codec.h :
                 codec.h[k].t = "array" /\ ~IsStringArray(codec.h[k])

\* C22: a JSON string yields the header with that single value, an array of
\* strings yields its values in array order, and a value of any other JSON
\* type or an array with a non-string element makes the parsing of the whole
\* configuration fail.
C22_HeaderParsing ==
    codec.op = "header" =>
        IF \A k \in DOMAIN codec.h :
              codec.h[k].t = "string" \/ IsStringArray(codec.h[k])
          THEN HeaderAsWritten
          ELSE codec.val.err


(***************************************************************************)
(* C27: the params of a running test                                       *)
(***************************************************************************)
\* the workers of some run have been launched and have not all returned
WorkersRunning == \E g \in TestReqs : testersPc[g] = "run"

\* C27: while a test is running the params the workers read do not change:
\* no later POST /test, whatever its outcome, changes any field of them
\* until the run has ended.
C27_ParamsImmutable ==
    [][(status = statusTesting /\ WorkersRunning) => params' = params]_vars


(***************************************************************************)
(* C28: the capacity of the results channel                                *)
(***************************************************************************)
\* request r has made its results channel
MadeResults(r) == senderPc[r] # "none"

\* C28 (supporting): the capacity is the low eight bits of
\* parallelTesters x 20, which is parallelTesters x 20 up to 12 testers.
C28_CapacityWraps ==
    \A r \in TestReqs :
       MadeResults(r) =>
          /\ resultsCap[r] = (body[r].ParallelTesters * 20) % 256
          /\ body[r].ParallelTesters <= 12 =>
                resultsCap[r] = body[r].ParallelTesters * 20

\* C28: the results channel of a run has capacity exactly
\* parallelTesters x 20, for every parallelTesters of 1..255.
C28_ResultsCapacity ==
    \A r \in TestReqs :
       (MadeResults(r) /\ body[r].ParallelTesters \in 1..255) =>
          resultsCap[r] = body[r].ParallelTesters * 20

\* The records in the results channels, and those the senders have received.
InChannel == UNION {{chanQ[c][i] : i \in 1..Len(chanQ[c])} : c \in TestReqs}
Received == UNION {{recvd[c][i] : i \in 1..Len(recvd[c])} : c \in TestReqs}

\* The records of the run of request g: the last of each worker, those in a
\* channel and those received.
RecordsOf(g) ==
    {a \in {wRec[g][w] : w \in 1..Spawned(g)} \cup InChannel \cup Received :
        a.run = g}

WorkersExited(g) ==
    /\ testersN[g] >= 0 /\ Spawned(g) = testersN[g]
    /\ \A w \in 1..Spawned(g) : wPc[g][w] = "exit"

\* C23: the results channel of a run is closed only once, after the context
\* of the run is done and every worker of the run has returned; no worker
\* is left to send on a closed results channel; the supervisor of a run has
\* stored ready only after the channel of the run was closed.
C23_SupervisorOrdering ==
    /\ \A c \in TestReqs :
          resultsClosed[c] => (ctxDone[c] /\ WorkersExited(c))
    /\ \A g \in TestReqs : \A w \in 1..Spawned(g) :
          wPc[g][w] = "push" => ~resultsClosed[results]
    /\ \A g \in TestReqs : supPc[g] = "exit" => resultsClosed[g]
    /\ \A g \in TestReqs :
          (supPc[g] = "waitTesters" /\ testersDoneClosed[supTD[g]])
             => ~resultsClosed[results]

\* C24: a record a worker has made and not yet sent has an open channel
\* with a running sender to go to; a sender has returned only from a closed
\* and empty channel; no record is received twice.
C24_NoRecordLost ==
    /\ \A g \in TestReqs : \A w \in 1..Spawned(g) :
          wPc[g][w] = "push" =>
             (~resultsClosed[results] /\ senderPc[results] = "run")
    /\ \A c \in TestReqs :
          senderPc[c] = "exit" => (resultsClosed[c] /\ chanQ[c] = <<>>)
    /\ \A c \in TestReqs : \A i, j \in 1..Len(recvd[c]) :
          recvd[c][i] = recvd[c][j] => i = j

\* C26: once the context of its run is done a worker starts no iteration.
C26_NoIterationAfterDone ==
    [][\A g \in TestReqs : \A w \in 1..Spawned(g) :
          ctxDone[g] => ~(wPc[g][w] = "top" /\ wPc'[g][w] = "push")]_vars

\* C25: once the context of a run is done, every worker of the run returns,
\* the results channel of the run is closed and the status is ready again.
C25_RunTerminates ==
    \A g \in TestReqs :
       ctxDone[g] ~> (status = statusReady /\ WorkersExited(g) /\ resultsClosed[g])

IDGenerators == {g \in TestReqs : idGenPc[g] = "run"}

\* C32: at most one ID generator is alive, and the generator of a run that
\* has ended (its supervisor has stored ready) has exited.
C32_OneIDGenerator ==
    /\ Cardinality(IDGenerators) <= 1
    /\ \A g \in TestReqs : supPc[g] = "exit" => g \notin IDGenerators

\* C33: for every duration >= 0 and every parallelTesters of the uint8 the
\* launcher does not panic, and the last worker starts within a quarter of
\* the duration (within 10 s at most).
C33_StartupDefined ==
    codec.op = "spinup" =>
       /\ ~codec.panics
       /\ codec.latest <= Nanoseconds(codec.d) \div 4

\* the paths of the templates of the configuration
Templates == {params.Requests[i] : i \in 1..Len(params.Requests)}

\* C34: the selection of a template does not panic, and the template of
\* every record is one of the configured requests.
C34_TemplateConfigured ==
    /\ ~crashed
    /\ \A a \in RecordsOf(1) : a.path \in Templates

\* the latency parameters handleDefault reads
Latency(p) == <<p.HMin, p.HMax, p.RMin, p.RMax>>

\* C35: while the Mock is running no step changes the latency parameters,
\* and every traffic request that is served is served with parameters whose
\* bands satisfy 0 <= min <= max.
C35_RejectedLeavesLatency ==
    [][/\ (mockStatus = statusRunning /\ mockStatus' = statusRunning)
             => Latency(mockParams') = Latency(mockParams)
       /\ traffic'.code = StatusOK => ValidLatency(traffic'.p)]_vars

\* C36: no handler of POST / has sent on the closed results channel, and
\* once the channel is closed no handler is left before its select.
C36_NoSendAfterClose ==
    /\ colPanicked = 0
    /\ colClosed => colSel = {}

\* the run of request g has ended: its workers have returned, its results
\* channel is closed and empty and its sender has returned
RunEnded(g) ==
    /\ WorkersExited(g)
    /\ resultsClosed[g] /\ chanQ[g] = <<>>
    /\ senderPc[g] = "exit"

\* C37: the shutdown goroutine cancels the context of the test before it
\* shuts the server down, and terminated is closed only when every run that
\* was started has ended.
C37_StartWaitsForRun ==
    /\ [](terminated => \A g \in TestReqs : supPc[g] # "none" => RunEnded(g))
    /\ [][(shutPc = "cancel" /\ shutPc' # "cancel" /\ testCancel # 0)
             => (ctxDone'[testCancel] /\ serving' = serving)]_vars

=============================================================================
